---- MODULE Spec2Model ----
(***************************************************************************)
(* Cardiff-Kotara corridor movement aggregator (clickk/traintrkcr).        *)
(*                                                                         *)
(* One aggregation cycle of getCorridorMovements (src/lib/corridor.ts) is  *)
(* modelled as a state machine whose position follows the awaits and the   *)
(* numbered steps of the function.  Instants are whole seconds; an ISO     *)
(* time string is the instant it denotes.  An optional field is the empty  *)
(* sequence when absent and a one-element sequence when present.  A string *)
(* the code assembles from parts (`sched-${tripId}`) is the sequence of    *)
(* its parts.                                                              *)
(***************************************************************************)
EXTENDS Integers, Sequences, FiniteSets, TLC

VARIABLES
    pc,                 \* position of the cycle inside getCorridorMovements
    filters,            \* the request's MovementFilters
    now,                \* const now = new Date()
    cachedSchedule,     \* gtfs-static.ts module-level timetable cache
    scheduledMovements, \* result of getScheduledMovementsAsync
    movements,          \* let movements
    feeds,              \* const feeds: FeedStatus[]
    allAlerts,          \* let allAlerts
    corridorAlerts,     \* let corridorAlerts
    fallbackActive,     \* let fallbackActive
    fallbackReason,     \* let fallbackReason
    tripUpdatesResult,  \* settlement of processTripUpdates()
    vehiclePositionsResult, \* settlement of processVehiclePositions()
    response,           \* what the caller of getCorridorMovements receives
    wallClock,          \* Date.now() as the schedule source reads it
    calls,              \* the invocations of getScheduledMovementsAsync
    lastParsed,         \* what fetchAndParseGTFS returned last, if not null
    requests,           \* useMovements: the fetches fetchMovements started
    abortRef,           \* useMovements: abortRef.current
    data,               \* useMovements: const [data, setData]
    loading,            \* useMovements: const [loading, setLoading]
    error,              \* useMovements: const [error, setError]
    mapMovements,       \* MapView: the movements prop
    mapClock,           \* MapView: Date.now() at the last update()
    mapPositions,       \* MapView: const [positions, setPositions]
    liveBefore          \* trips the previous response had as confirmed-live

\* the variables of one aggregation cycle, the module-level timetable cache
\* apart
cycleVars == <<pc, filters, now, scheduledMovements, movements,
               feeds, allAlerts, corridorAlerts, fallbackActive, fallbackReason,
               tripUpdatesResult, vehiclePositionsResult, response>>

\* the schedule source under several callers
sourceVars == <<wallClock, calls, lastParsed>>

\* the client hook
hookVars == <<requests, abortRef, data, loading, error>>

\* the map's animated positions
mapVars == <<mapMovements, mapClock, mapPositions>>

\* what an observer of successive responses remembers of the last one
pollVars == <<liveBefore>>

vars == <<cycleVars, cachedSchedule, sourceVars, hookVars, mapVars, pollVars>>

----------------------------------------------------------------------------
\* Bounds of the model

\* number of trips in the published timetable
NumTrips == 2

\* realtime departure delays range over whole minutes 0..MaxDelayMin
MaxDelayMin == 3

----------------------------------------------------------------------------
\* Optional values and small helpers

None == << >>
Some(v) == <<v>>
IsSome(o) == Len(o) > 0
Val(o) == o[1]

\* a || b on optional values (every present value here is truthy)
OrElse(a, b) == IF IsSome(a) THEN a ELSE b

Minute == 60
Hour == 60 * 60
DaySeconds == 24 * 60 * 60

\* date-fns startOfDay / endOfDay / addDays on whole seconds; endOfDay is
\* 23:59:59.999, so an instant in whole seconds is <= it iff it is at most
\* 23:59:59.
startOfDay(t) == t - (t % DaySeconds)
endOfDay(t) == startOfDay(t) + DaySeconds - 1
addDays(t, n) == t + n * DaySeconds
getDate(t) == t \div DaySeconds

RECURSIVE SelectSeqIdx(_, _, _)
\* Array.prototype.filter, keeping the elements whose index satisfies Keep
SelectSeqIdx(s, Keep(_), i) ==
    IF i > Len(s) THEN << >>
    ELSE (IF Keep(i) THEN <<s[i]>> ELSE << >>) \o SelectSeqIdx(s, Keep, i + 1)

MapSeq(s, F(_)) == [i \in 1..Len(s) |-> F(s[i])]

----------------------------------------------------------------------------
\* Stations (src/lib/stations.ts)

CARDIFF == "Cardiff"
KOTARA == "Kotara"

----------------------------------------------------------------------------
\* Time window (corridor.ts getTimeWindow)

getTimeWindow(timeWindow, n) ==
    CASE timeWindow = "now" ->
            [from |-> n - 15 * Minute, to |-> n + 1 * Hour]
      [] timeWindow = "next-2h" ->
            [from |-> n - 5 * Minute, to |-> n + 2 * Hour]
      [] timeWindow = "today" ->
            [from |-> startOfDay(n), to |-> endOfDay(n)]

----------------------------------------------------------------------------
\* Schedule source (src/lib/tfnsw/gtfs-static.ts)

\* const CACHE_TTL_MS = 6 * 60 * 60 * 1000, in seconds
CACHE_TTL_MS == 6 * 60 * 60

\* isCacheValid(), with Date.now() passed in
isCacheValid(cache, clock) ==
    IF ~IsSome(cache) THEN FALSE
    ELSE clock - Val(cache).fetchedAt < CACHE_TTL_MS

\* gtfsTimeToDate: a GTFS time is the sequence of the numbers between its
\* colons (<<25, 30, 0>> for "25:30:00"; the empty sequence for an empty
\* field).  A missing hour or minute parses to NaN and yields an Invalid
\* Date, here None; a missing seconds part counts as "0".
gtfsTimeToDate(gtfsTime, dayStart) ==
    IF Len(gtfsTime) < 2 THEN None
    ELSE Some(startOfDay(dayStart)
              + gtfsTime[1] * 3600 + gtfsTime[2] * 60
              + (IF Len(gtfsTime) >= 3 THEN gtfsTime[3] ELSE 0))

RECURSIVE LastEntryAt(_, _, _)
\* the loop `for (const st of stopEntries)`: the last entry at the station
LastEntryAt(stopEntries, station, i) ==
    IF i = 0 THEN None
    ELSE IF stopEntries[i].station = station THEN Some(stopEntries[i])
    ELSE LastEntryAt(stopEntries, station, i - 1)

\* the StopCall literal built for a timetable entry; toISOString() of an
\* Invalid Date throws, which ToStopCallThrows reports
ToStopCallThrows(entry, dayStart) ==
    \/ ~IsSome(gtfsTimeToDate(entry.arrival, dayStart))
    \/ ~IsSome(gtfsTimeToDate(entry.departure, dayStart))

ToStopCall(entry, name, dayStart) ==
    [stopName |-> name,
     scheduledArrival |-> gtfsTimeToDate(entry.arrival, dayStart),
     scheduledDeparture |-> gtfsTimeToDate(entry.departure, dayStart),
     estimatedArrival |-> None,
     estimatedDeparture |-> None,
     stopSequence |-> entry.sequence,
     stopsHere |-> TRUE]

\* scheduledDeparture of an optional call (call?.scheduledDeparture)
SchedDepOf(call) == IF IsSome(call) THEN Val(call).scheduledDeparture ELSE None

\* One iteration of the loop of buildMovementsFromGTFS: "skip" for a
\* `continue`, "throw" for the RangeError of toISOString, else the movement.
BuildOne(trip, dayStart) ==
    LET cardiffEntry == LastEntryAt(trip.stopEntries, CARDIFF, Len(trip.stopEntries))
        kotaraEntry == LastEntryAt(trip.stopEntries, KOTARA, Len(trip.stopEntries))
        direction ==
            IF IsSome(cardiffEntry) /\ IsSome(kotaraEntry)
            THEN (IF Val(cardiffEntry).sequence < Val(kotaraEntry).sequence
                  THEN "towards-newcastle" ELSE "towards-sydney")
            ELSE (IF trip.directionId = "1"
                  THEN "towards-sydney" ELSE "towards-newcastle")
        cardiffCall == IF IsSome(cardiffEntry)
                       THEN Some(ToStopCall(Val(cardiffEntry), CARDIFF, dayStart))
                       ELSE None
        kotaraCall == IF IsSome(kotaraEntry)
                      THEN Some(ToStopCall(Val(kotaraEntry), KOTARA, dayStart))
                      ELSE None
        primaryTime ==
            IF direction = "towards-newcastle"
            THEN OrElse(SchedDepOf(cardiffCall), SchedDepOf(kotaraCall))
            ELSE OrElse(SchedDepOf(kotaraCall), SchedDepOf(cardiffCall))
    IN  IF ~IsSome(cardiffEntry) /\ ~IsSome(kotaraEntry)
        THEN [kind |-> "skip", m |-> None]
        ELSE IF \/ IsSome(cardiffEntry) /\ ToStopCallThrows(Val(cardiffEntry), dayStart)
                \/ IsSome(kotaraEntry) /\ ToStopCallThrows(Val(kotaraEntry), dayStart)
        THEN [kind |-> "throw", m |-> None]
        ELSE IF ~IsSome(primaryTime) THEN [kind |-> "skip", m |-> None]
        ELSE IF trip.headsign = "Empty Train" THEN [kind |-> "skip", m |-> None]
        ELSE [kind |-> "movement",
              m |-> Some(
                [id |-> <<"sched">> \o trip.tripId,
                 tripId |-> Some(trip.tripId),
                 routeId |-> Some(trip.routeId),
                 serviceType |-> "passenger",
                 direction |-> direction,
                 status |-> "scheduled",
                 cardiffCall |-> cardiffCall,
                 kotaraCall |-> kotaraCall,
                 passesThrough |-> FALSE,
                 vehiclePosition |-> None,
                 confidence |-> [level |-> "scheduled",
                                 reason |-> "From TfNSW GTFS static timetable",
                                 sources |-> <<"tfnsw-gtfs-static">>],
                 disruptions |-> << >>,
                 scheduledTime |-> Val(primaryTime),
                 estimatedTime |-> None,
                 delayMinutes |-> None])]

RECURSIVE BuildFrom(_, _, _)
BuildFrom(trips, dayStart, i) ==
    IF i > Len(trips) THEN [threw |-> FALSE, movements |-> << >>]
    ELSE LET one == BuildOne(trips[i], dayStart)
         IN  IF one.kind = "throw" THEN [threw |-> TRUE, movements |-> << >>]
             ELSE LET rest == BuildFrom(trips, dayStart, i + 1)
                  IN  IF rest.threw THEN rest
                      ELSE [threw |-> FALSE,
                            movements |-> (IF one.kind = "movement" THEN one.m ELSE << >>)
                                          \o rest.movements]

\* buildMovementsFromGTFS writing `delayMinutes: 0` into each movement
buildMovementsFromGTFS_ZeroDelay(schedule, dayStart) ==
    LET built == BuildFrom(schedule.trips, dayStart, 1)
    IN  [built EXCEPT !.movements =
            [i \in 1..Len(built.movements) |->
                [built.movements[i] EXCEPT !.delayMinutes = Some(0)]]]

\* buildMovementsFromGTFS(schedule, dayStart): the movements in the order of
\* the timetable, or threw when a stop time does not parse
buildMovementsFromGTFS(schedule, dayStart) == BuildFrom(schedule.trips, dayStart, 1)

\* generateFallbackSchedule's `services` table: <<h, m, direction>>
FallbackServices ==
    << <<4, 25, "towards-newcastle">>, <<5, 28, "towards-newcastle">>,
       <<6, 30, "towards-newcastle">>, <<7, 35, "towards-newcastle">>,
       <<8, 27, "towards-newcastle">>, <<9, 38, "towards-newcastle">>,
       <<10, 42, "towards-newcastle">>, <<11, 34, "towards-newcastle">>,
       <<12, 57, "towards-newcastle">>, <<13, 34, "towards-newcastle">>,
       <<14, 42, "towards-newcastle">>, <<15, 34, "towards-newcastle">>,
       <<16, 42, "towards-newcastle">>, <<17, 34, "towards-newcastle">>,
       <<18, 42, "towards-newcastle">>, <<19, 34, "towards-newcastle">>,
       <<20, 42, "towards-newcastle">>, <<21, 34, "towards-newcastle">>,
       <<22, 42, "towards-newcastle">>,
       <<5, 11, "towards-sydney">>, <<6, 3, "towards-sydney">>,
       <<7, 11, "towards-sydney">>, <<8, 3, "towards-sydney">>,
       <<9, 10, "towards-sydney">>, <<10, 3, "towards-sydney">>,
       <<11, 12, "towards-sydney">>, <<12, 3, "towards-sydney">>,
       <<13, 9, "towards-sydney">>, <<14, 3, "towards-sydney">>,
       <<15, 12, "towards-sydney">>, <<16, 3, "towards-sydney">>,
       <<17, 12, "towards-sydney">>, <<18, 16, "towards-sydney">>,
       <<19, 10, "towards-sydney">>, <<19, 48, "towards-sydney">>,
       <<20, 48, "towards-sydney">>, <<22, 16, "towards-sydney">>,
       <<23, 56, "towards-sydney">> >>

\* the route id "CCN_1a" as its characters
RouteCCN1a == <<"C", "C", "N", "_", "1", "a">>

\* the movement pushed for services[i] (i counts from 1 here, the id from 0)
FallbackMovement(i, dayStart) ==
    LET s == FallbackServices[i]
        dir == s[3]
        cardiffTime == dayStart + s[1] * Hour + s[2] * Minute
        kotaraTime == IF dir = "towards-newcastle"
                      THEN cardiffTime + 4 * Minute
                      ELSE cardiffTime - 4 * Minute
        cardiffCall ==
            [stopName |-> CARDIFF,
             scheduledArrival |-> Some(cardiffTime - 1 * Minute),
             scheduledDeparture |-> Some(cardiffTime),
             estimatedArrival |-> None,
             estimatedDeparture |-> None,
             stopSequence |-> IF dir = "towards-newcastle" THEN 20 ELSE 22,
             stopsHere |-> TRUE]
        kotaraCall ==
            [stopName |-> KOTARA,
             scheduledArrival |-> Some(kotaraTime - 1 * Minute),
             scheduledDeparture |-> Some(kotaraTime),
             estimatedArrival |-> None,
             estimatedDeparture |-> None,
             stopSequence |-> 21,
             stopsHere |-> TRUE]
    IN  [id |-> <<"fallback", i - 1>>,
         tripId |-> Some(<<"fallback", dir, s[1], s[2]>>),
         routeId |-> Some(RouteCCN1a),
         serviceType |-> "passenger",
         direction |-> dir,
         status |-> "scheduled",
         cardiffCall |-> Some(cardiffCall),
         kotaraCall |-> Some(kotaraCall),
         passesThrough |-> FALSE,
         vehiclePosition |-> None,
         confidence |-> [level |-> "scheduled",
                         reason |-> "Fallback schedule",
                         sources |-> <<"tfnsw-gtfs-static">>],
         disruptions |-> << >>,
         scheduledTime |-> IF dir = "towards-newcastle" THEN cardiffTime ELSE kotaraTime,
         estimatedTime |-> None,
         delayMinutes |-> None]

\* the window test `t >= from && t <= to` on the primary timestamp
InWindow(m, from, to) == m.scheduledTime >= from /\ m.scheduledTime <= to

\* FilterToWindow letting every movement through
FilterToWindow_KeepsAll(ms, from, to) == ms

FilterToWindow(ms, from, to) ==
    SelectSeq(ms, LAMBDA m : InWindow(m, from, to))

generateFallbackSchedule(from, to) ==
    FilterToWindow([i \in 1..Len(FallbackServices) |->
                        FallbackMovement(i, startOfDay(from))], from, to)

\* getScheduledMovementsAsync(from, to).  cache is cachedSchedule at the
\* call, clock is Date.now(), fetch1 and fetch2 are what the first and the
\* second call of fetchAndParseGTFS return if they are made (None for null).
\* The result carries the new cachedSchedule; threw reports an exception
\* leaving the function (raised by buildMovementsFromGTFS, which no
\* try block here encloses).
getScheduledMovementsAsync(cache, clock, fetch1, fetch2, from, to) ==
    LET cache1 == IF ~isCacheValid(cache, clock) /\ IsSome(fetch1)
                  THEN fetch1 ELSE cache
        dayStart == startOfDay(from)
    IN  IF ~IsSome(cache1)
        THEN [threw |-> FALSE, cache |-> cache1,
              movements |-> FilterToWindow(generateFallbackSchedule(from, to), from, to)]
        ELSE
          LET today == buildMovementsFromGTFS(Val(cache1), dayStart)
              nextDay == IF getDate(to) # getDate(from)
                         THEN buildMovementsFromGTFS(Val(cache1), addDays(dayStart, 1))
                         ELSE [threw |-> FALSE, movements |-> << >>]
          IN  IF today.threw \/ nextDay.threw
              THEN [threw |-> TRUE, cache |-> cache1, movements |-> << >>]
              ELSE IF Len(today.movements \o nextDay.movements) # 0
              THEN [threw |-> FALSE, cache |-> cache1,
                    movements |-> FilterToWindow(today.movements \o nextDay.movements,
                                                 from, to)]
              ELSE
                LET cache2 == IF IsSome(fetch2) THEN fetch2 ELSE cache1
                    again == IF IsSome(fetch2)
                             THEN buildMovementsFromGTFS(Val(fetch2), dayStart)
                             ELSE [threw |-> FALSE, movements |-> << >>]
                IN  IF again.threw
                    THEN [threw |-> TRUE, cache |-> cache2, movements |-> << >>]
                    ELSE [threw |-> FALSE, cache |-> cache2,
                          movements |->
                            FilterToWindow(
                                IF Len(again.movements) = 0
                                THEN generateFallbackSchedule(from, to)
                                ELSE again.movements, from, to)]

----------------------------------------------------------------------------
\* Inputs of the schedule source: what fetchAndParseGTFS can return

\* trip ids of the published timetable, "N671", "N672", ...
TripIdOf(k) == <<"N", 670 + k>>

RouteCCN2a == <<"C", "C", "N", "_", "2", "a">>

\* Trip k of the published timetable: odd trips run Cardiff then Kotara
\* (towards Newcastle), even trips Kotara then Cardiff, ten minutes apart
\* from 08:00, four minutes between the two stations.  blankTime leaves the
\* departure_time of the second stop empty, as GTFS allows for a stop that
\* is not a timepoint.
PublishedTrip(k, blankTime) ==
    LET first == IF k % 2 = 1 THEN CARDIFF ELSE KOTARA
        second == IF k % 2 = 1 THEN KOTARA ELSE CARDIFF
        minute == (k - 1) * 10
    IN  [tripId |-> TripIdOf(k),
         routeId |-> IF k % 2 = 1 THEN RouteCCN1a ELSE RouteCCN2a,
         directionId |-> IF k % 2 = 1 THEN "0" ELSE "1",
         headsign |-> IF k % 2 = 1 THEN "Newcastle Interchange" ELSE "Central",
         stopEntries |->
            << [station |-> first, arrival |-> <<8, minute, 0>>,
                departure |-> <<8, minute, 0>>, sequence |-> 20],
               [station |-> second, arrival |-> <<8, minute + 4, 0>>,
                departure |-> IF blankTime THEN << >> ELSE <<8, minute + 4, 0>>,
                sequence |-> 21] >>]

\* Trip k of the night timetable: trip 1 leaves Cardiff at 23:50, trip 2
\* leaves Kotara at 00:10, trip 3 leaves Cardiff at 24:50 in GTFS notation,
\* which is 00:50 of the day after the service day, and so on
NightTrip(k) ==
    LET first == IF k % 2 = 1 THEN CARDIFF ELSE KOTARA
        second == IF k % 2 = 1 THEN KOTARA ELSE CARDIFF
        hour == IF k % 2 = 1 THEN 23 + (k \div 2) ELSE 0
        minute == IF k % 2 = 1 THEN 50 ELSE 5 * k
    IN  [tripId |-> TripIdOf(k),
         routeId |-> IF k % 2 = 1 THEN RouteCCN1a ELSE RouteCCN2a,
         directionId |-> IF k % 2 = 1 THEN "0" ELSE "1",
         headsign |-> IF k % 2 = 1 THEN "Newcastle Interchange" ELSE "Central",
         stopEntries |->
            << [station |-> first, arrival |-> <<hour, minute, 0>>,
                departure |-> <<hour, minute, 0>>, sequence |-> 20],
               [station |-> second, arrival |-> <<hour, minute + 4, 0>>,
                departure |-> <<hour, minute + 4, 0>>, sequence |-> 21] >>]

\* A ParsedSchedule as fetchAndParseGTFS returns it at instant clock:
\* "published" has NumTrips active trips, "gap" has no service active today
\* (the calendar does not cover the date), "blank-time" is "published" with
\* one empty departure_time, "night" has NumTrips trips around midnight.
ParsedSchedule(kind, clock) ==
    [trips |-> CASE kind = "published" ->
                      [k \in 1..NumTrips |-> PublishedTrip(k, FALSE)]
                 [] kind = "gap" -> << >>
                 [] kind = "blank-time" ->
                      [k \in 1..NumTrips |-> PublishedTrip(k, k = 1)]
                 [] kind = "night" ->
                      [k \in 1..NumTrips |-> NightTrip(k)],
     fetchedAt |-> clock]

\* fetchAndParseGTFS(): null (no key, HTTP error, parse error) or a timetable
FetchOutcomes(clock) ==
    {None} \cup {Some(ParsedSchedule(kind, clock)) :
                    kind \in {"published", "gap", "blank-time"}}

----------------------------------------------------------------------------
\* Realtime update processor and reconciliation engine
\* (src/lib/tfnsw/gtfs-realtime.ts)

\* a trip id that no timetable contains
UnknownTrip == <<"X", 999>>

RealtimeTrips == {TripIdOf(k) : k \in 1..NumTrips} \cup {UnknownTrip}

\* departure delays a trip update can carry, in seconds
Delays == {60 * k : k \in 0..MaxDelayMin}

\* midnight of the day the cycles run on
Day1 == DaySeconds

\* the absolute departure time a stop-time update can carry: 08:12, behind
\* the 08:10 departure of the next trip
AbsoluteEstimate == Day1 + 8 * Hour + 12 * Minute

\* the instant the trip alert's active period ends, 08:05
AlertEnd == Day1 + 8 * Hour + 5 * Minute

StopUpdate(station, delay, time) ==
    [station |-> station, delay |-> delay, time |-> time]

\* the per-trip records a decoded trip-update feed can hold
TripUpdateChoices ==
    {[cancelled |-> TRUE, stopTimeUpdates |-> << >>]}
    \cup {[cancelled |-> FALSE,
           stopTimeUpdates |-> << StopUpdate(CARDIFF, Some(d), None),
                                  StopUpdate(KOTARA, Some(d), None) >>] :
            d \in Delays}
    \cup {[cancelled |-> FALSE,
           stopTimeUpdates |-> << StopUpdate(CARDIFF, Some(60), Some(AbsoluteEstimate)) >>],
          [cancelled |-> FALSE,
           stopTimeUpdates |-> << StopUpdate(KOTARA, Some(180), None) >>]}

\* the delay maps: no entry, or one entry for one trip
UpdateMaps ==
    {<< >>}
    \cup {[t \in {TripIdOf(k)} |-> u] : k \in 1..NumTrips, u \in TripUpdateChoices}
    \cup {[t \in {UnknownTrip} |-> u] :
            u \in {c \in TripUpdateChoices : c.cancelled \/ Len(c.stopTimeUpdates) = 1}}

LivePosition == [source |-> "tfnsw-gtfs-rt-vehicle-positions"]

\* the position maps: no entry, or one entry for one trip
PositionMaps ==
    {<< >>} \cup {[t \in {trip} |-> LivePosition] : trip \in RealtimeTrips}

OfflineFeed(name, source, text) ==
    [name |-> name, source |-> source, status |-> "offline", error |-> Some(text)]

OnlineFeed(name, source) ==
    [name |-> name, source |-> source, status |-> "online", error |-> None]

\* processTripUpdates(): rejects, or fulfils with an offline status and no
\* records, or fulfils online with a delay map
TripUpdateOutcomes ==
    {[kind |-> "rejected", feedStatus |-> None, updates |-> << >>]}
    \cup {[kind |-> "fulfilled",
           feedStatus |-> Some(OfflineFeed("GTFS-RT Trip Updates",
                                           "tfnsw-gtfs-rt-trip-updates",
                                           "Failed to fetch Trip Updates")),
           updates |-> << >>]}
    \cup {[kind |-> "fulfilled",
           feedStatus |-> Some(OnlineFeed("GTFS-RT Trip Updates",
                                          "tfnsw-gtfs-rt-trip-updates")),
           updates |-> u] : u \in UpdateMaps}

\* processVehiclePositions(): likewise, with a position map
VehiclePositionOutcomes ==
    {[kind |-> "rejected", feedStatus |-> None, positions |-> << >>]}
    \cup {[kind |-> "fulfilled",
           feedStatus |-> Some(OfflineFeed("GTFS-RT Vehicle Positions",
                                           "tfnsw-gtfs-rt-vehicle-positions",
                                           "Failed to fetch Vehicle Positions")),
           positions |-> << >>]}
    \cup {[kind |-> "fulfilled",
           feedStatus |-> Some(OnlineFeed("GTFS-RT Vehicle Positions",
                                          "tfnsw-gtfs-rt-vehicle-positions")),
           positions |-> p] : p \in PositionMaps}

\* Math.round(seconds / 60)
RoundToMinutes(seconds) == (2 * seconds + 60) \div 120

RECURSIVE ApplyStopUpdates(_, _, _)
\* apply the stop-time updates that name the call's station, in order: an
\* absolute time is preferred to the delay added to the scheduled departure
ApplyStopUpdates(call, stus, i) ==
    IF i > Len(stus) THEN call
    ELSE LET u == stus[i]
             est == IF IsSome(u.time) THEN u.time
                    ELSE IF IsSome(u.delay) /\ IsSome(call.scheduledDeparture)
                    THEN Some(Val(call.scheduledDeparture) + Val(u.delay))
                    ELSE call.estimatedDeparture
         IN  ApplyStopUpdates(
                IF u.station = call.stopName
                THEN [call EXCEPT !.estimatedDeparture = est]
                ELSE call,
                stus, i + 1)

UpdateCall(call, stus) ==
    IF IsSome(call) THEN Some(ApplyStopUpdates(Val(call), stus, 1)) ELSE None

\* the primary corridor call: the corridor station met first in the
\* movement's direction, the other one when that call is absent
PrimaryCall(m) ==
    IF m.direction = "towards-newcastle"
    THEN OrElse(m.cardiffCall, m.kotaraCall)
    ELSE OrElse(m.kotaraCall, m.cardiffCall)

CancelledNote == "Cancelled per realtime update"

\* StatusForDelay with >= for >
StatusForDelay_AtLeastTwo(delay) == IF delay >= 2 THEN "delayed" ELSE "live"

\* delayed if the delay exceeds two minutes, else live
StatusForDelay(delay) == IF delay > 2 THEN "delayed" ELSE "live"

\* the delay-based update of one movement that has an entry u in the delay map
ApplyTripUpdate(m, u) ==
    IF u.cancelled
    THEN [m EXCEPT !.status = "cancelled",
                   !.confidence = [level |-> "confirmed-updated",
                                   reason |-> "cancelled per realtime update",
                                   sources |-> Append(m.confidence.sources,
                                                      "tfnsw-gtfs-rt-trip-updates")],
                   !.disruptions = Append(m.disruptions, CancelledNote)]
    ELSE LET m1 == [m EXCEPT !.cardiffCall = UpdateCall(m.cardiffCall, u.stopTimeUpdates),
                             !.kotaraCall = UpdateCall(m.kotaraCall, u.stopTimeUpdates)]
             primary == PrimaryCall(m1)
             known == /\ IsSome(primary)
                      /\ IsSome(Val(primary).scheduledDeparture)
                      /\ IsSome(Val(primary).estimatedDeparture)
             delay == IF known
                      THEN RoundToMinutes(Val(Val(primary).estimatedDeparture)
                                          - Val(Val(primary).scheduledDeparture))
                      ELSE 0
         IN  [m1 EXCEPT !.delayMinutes = IF known THEN Some(delay) ELSE m.delayMinutes,
                        !.estimatedTime = IF known THEN Val(primary).estimatedDeparture
                                          ELSE m.estimatedTime,
                        !.status = StatusForDelay(delay),
                        !.confidence = [level |-> "confirmed-updated",
                                        reason |-> "realtime trip update",
                                        sources |-> Append(m.confidence.sources,
                                                           "tfnsw-gtfs-rt-trip-updates")]]

\* ApplyPosition setting the status to live whatever it was
ApplyPosition_ForcesLive(m, position) ==
    [m EXCEPT !.vehiclePosition = Some(position),
              !.confidence = [level |-> "confirmed-live",
                              reason |-> "live position confirmed",
                              sources |-> Append(m.confidence.sources,
                                                 "tfnsw-gtfs-rt-vehicle-positions")],
              !.status = "live"]

\* the position-based upgrade of one movement that has an entry in the
\* position map
ApplyPosition(m, position) ==
    [m EXCEPT !.vehiclePosition = Some(position),
              !.confidence = [level |-> "confirmed-live",
                              reason |-> "live position confirmed",
                              sources |-> Append(m.confidence.sources,
                                                 "tfnsw-gtfs-rt-vehicle-positions")],
              !.status = IF m.status = "scheduled" THEN "live" ELSE m.status]

HasTrip(map, m) == IsSome(m.tripId) /\ Val(m.tripId) \in DOMAIN map

\* MergeOne with the position upgrade ahead of the delay update
MergeOne_PositionFirst(m, updates, positions) ==
    LET m1 == IF HasTrip(positions, m)
              THEN ApplyPosition(m, positions[Val(m.tripId)]) ELSE m
    IN  IF HasTrip(updates, m)
        THEN ApplyTripUpdate(m1, updates[Val(m.tripId)]) ELSE m1

\* MergeOne keeping a trip live that the cycle before showed as live
MergeOne_RemembersLive(m, updates, positions) ==
    LET m1 == IF HasTrip(updates, m)
              THEN ApplyTripUpdate(m, updates[Val(m.tripId)]) ELSE m
    IN  IF HasTrip(positions, m)
        THEN ApplyPosition(m1, positions[Val(m.tripId)])
        ELSE IF IsSome(m.tripId) /\ Val(m.tripId) \in liveBefore
             THEN [m1 EXCEPT !.confidence.level = "confirmed-live"]
             ELSE m1

\* the two steps of the merge for one baseline movement, delay then position
MergeOne(m, updates, positions) ==
    LET m1 == IF HasTrip(updates, m)
              THEN ApplyTripUpdate(m, updates[Val(m.tripId)]) ELSE m
    IN  IF HasTrip(positions, m)
        THEN ApplyPosition(m1, positions[Val(m.tripId)]) ELSE m1

\* mergeRealtimeData adding a movement for every realtime trip the baseline
\* does not hold
mergeRealtimeData_AddsUnknown(baseline, updates, positions) ==
    [i \in 1..Len(baseline) |-> MergeOne(baseline[i], updates, positions)]
    \o (IF \E t \in DOMAIN updates \cup DOMAIN positions :
              \A i \in 1..Len(baseline) : baseline[i].tripId # Some(t)
        THEN << [id |-> <<"rt">>, tripId |-> None, routeId |-> None,
                 serviceType |-> "passenger", direction |-> "towards-newcastle",
                 status |-> "live", cardiffCall |-> None, kotaraCall |-> None,
                 passesThrough |-> FALSE, vehiclePosition |-> None,
                 confidence |-> [level |-> "confirmed-updated",
                                 reason |-> "realtime trip update",
                                 sources |-> <<"tfnsw-gtfs-rt-trip-updates">>],
                 disruptions |-> << >>, scheduledTime |-> Day1,
                 estimatedTime |-> None, delayMinutes |-> None] >>
        ELSE << >>)

\* mergeRealtimeData(baseline, updates, positions)
mergeRealtimeData(baseline, updates, positions) ==
    [i \in 1..Len(baseline) |-> MergeOne(baseline[i], updates, positions)]

----------------------------------------------------------------------------
\* Freight estimator (src/lib/freight/artc-client.ts)

\* generateModelledFreight's `commodities` table, with the first three
\* letters of the type in upper case as the train id uses them
Commodities ==
    << [type |-> "Coal", count |-> 6, abbrev |-> "COA"],
       [type |-> "Intermodal", count |-> 3, abbrev |-> "INT"],
       [type |-> "Grain", count |-> 1, abbrev |-> "GRA"] >>

\* instance i (from 0) of commodity c, the movementIdx-th freight movement
ModelledFreight(c, i, movementIdx, date) ==
    LET dayStart == startOfDay(date)
        baseHour == ((24 * i) \div c.count) + 2
        baseMinute == (i * 17 + 7) % 60
        direction == IF c.type = "Coal" THEN "towards-newcastle"
                     ELSE IF i % 2 = 0 THEN "towards-newcastle"
                     ELSE "towards-sydney"
        passTime == dayStart + baseHour * Hour + baseMinute * Minute
    IN  [trainId |-> <<"FRT", c.abbrev, movementIdx + 1>>,
         estimatedCardiffPass |->
            Some(IF direction = "towards-newcastle" THEN passTime
                 ELSE passTime + 4 * Minute),
         estimatedKotaraPass |->
            Some(IF direction = "towards-newcastle" THEN passTime + 4 * Minute
                 ELSE passTime),
         direction |-> direction,
         source |-> "artc-freight-modelled"]

RECURSIVE CountBefore(_)
\* value of movementIdx when the loop reaches commodity number ci
CountBefore(ci) == IF ci = 1 THEN 0 ELSE CountBefore(ci - 1) + Commodities[ci - 1].count

RECURSIVE FreightFrom(_, _)
FreightFrom(ci, date) ==
    IF ci > Len(Commodities) THEN << >>
    ELSE [j \in 1..Commodities[ci].count |->
             ModelledFreight(Commodities[ci], j - 1, CountBefore(ci) + j - 1, date)]
         \o FreightFrom(ci + 1, date)

generateModelledFreight(date) == FreightFrom(1, date)

\* PassCall marking the pass as a stop
PassCall_StopsHere(name, pass, sequence) ==
    IF IsSome(pass)
    THEN Some([stopName |-> name,
               scheduledArrival |-> None,
               scheduledDeparture |-> pass,
               estimatedArrival |-> None,
               estimatedDeparture |-> None,
               stopSequence |-> sequence,
               stopsHere |-> TRUE])
    ELSE None

\* the StopCall freightToMovement builds for a station the train passes
PassCall(name, pass, sequence) ==
    IF IsSome(pass)
    THEN Some([stopName |-> name,
               scheduledArrival |-> None,
               scheduledDeparture |-> pass,
               estimatedArrival |-> None,
               estimatedDeparture |-> None,
               stopSequence |-> sequence,
               stopsHere |-> FALSE])
    ELSE None

\* freightToMovement(freight, idx); clock stands for new Date() in the
\* primary time's last resort
freightToMovement(freight, clock) ==
    [id |-> <<"freight">> \o freight.trainId,
     tripId |-> None,
     routeId |-> None,
     serviceType |-> "freight",
     direction |-> freight.direction,
     status |-> "scheduled",
     cardiffCall |-> PassCall(CARDIFF, freight.estimatedCardiffPass,
                              IF freight.direction = "towards-newcastle" THEN 20 ELSE 22),
     kotaraCall |-> PassCall(KOTARA, freight.estimatedKotaraPass, 21),
     passesThrough |-> TRUE,
     vehiclePosition |-> None,
     confidence |->
        [level |-> "estimated-freight",
         reason |-> IF freight.source = "artc-freight"
                    THEN "From ARTC freight movement data"
                    ELSE IF freight.source = "data-infrastructure-gov-au"
                    THEN "From data.infrastructure.gov.au freight dataset"
                    ELSE "Estimated from known corridor freight patterns",
         sources |-> <<freight.source>>],
     disruptions |-> << >>,
     scheduledTime |->
        Val(IF freight.direction = "towards-newcastle"
            THEN OrElse(freight.estimatedCardiffPass,
                        OrElse(freight.estimatedKotaraPass, Some(clock)))
            ELSE OrElse(freight.estimatedKotaraPass,
                        OrElse(freight.estimatedCardiffPass, Some(clock)))),
     estimatedTime |-> None,
     delayMinutes |-> None]

\* tryArtcApi(): null without a key or when the request fails, else a
\* dataset whose `records` the code leaves empty
tryArtcApi(hasKey, apiOk) ==
    IF ~hasKey THEN None
    ELSE IF ~apiOk THEN None
    ELSE Some([source |-> "ARTC Developer Portal", records |-> << >>])

\* getFreightMovements(date) with ARTC_API_KEY set or not and the API
\* answering or not
getFreightMovements(date, hasKey, apiOk) ==
    LET artcData == tryArtcApi(hasKey, apiOk)
    IN  IF IsSome(artcData) /\ Len(Val(artcData).records) > 0
        THEN [movements |-> MapSeq(Val(artcData).records,
                                   LAMBDA r : freightToMovement(r, date)),
              feedStatus |-> [name |-> "ARTC Freight Data",
                              source |-> "artc-freight",
                              status |-> "online",
                              error |-> None]]
        ELSE [movements |-> MapSeq(generateModelledFreight(date),
                                   LAMBDA r : freightToMovement(r, date)),
              feedStatus |->
                [name |-> "Freight Data (Modelled)",
                 source |-> "artc-freight-modelled",
                 status |-> IF ~IsSome(artcData) /\ ~hasKey
                            THEN "degraded" ELSE "online",
                 error |-> IF ~hasKey
                           THEN Some("No ARTC API key configured. Using modelled freight patterns.")
                           ELSE None]]

----------------------------------------------------------------------------
\* Service alert correlator (src/lib/tfnsw/service-alerts.ts)

IsPrefix(p, s) == Len(p) <= Len(s) /\ SubSeq(s, 1, Len(p)) = p

RECURSIVE BeforeUnderscore(_, _)
\* rid.split("_")[0] on a string given as its characters
BeforeUnderscore(s, i) ==
    IF i > Len(s) \/ s[i] = "_" THEN SubSeq(s, 1, i - 1)
    ELSE BeforeUnderscore(s, i + 1)

CORRIDOR_ROUTE_PREFIXES == { <<"C", "C", "N">>, <<"H", "U", "N">>, <<"S", "H", "L">> }

\* the active-period loop of processServiceAlerts: a missing or zero start
\* counts as 0, a missing or zero end as Infinity; no period at all is active
IsActiveAt(activePeriods, clock) ==
    \/ Len(activePeriods) = 0
    \/ \E i \in 1..Len(activePeriods) :
          LET ap == activePeriods[i]
              hasStart == IsSome(ap.start) /\ Val(ap.start) # 0
              hasEnd == IsSome(ap.end) /\ Val(ap.end) # 0
          IN  /\ (hasStart => clock >= Val(ap.start))
              /\ (hasEnd => clock <= Val(ap.end))

\* the ServiceAlert pushed for one feed entity
ToServiceAlert(entity, clock) ==
    [id |-> entity.id,
     cause |-> entity.cause,
     header |-> entity.header,
     routeIds |-> entity.routeIds,
     tripIds |-> entity.tripIds,
     isActive |-> IsActiveAt(entity.activePeriod, clock)]

SeqHas(s, x) == \E i \in 1..Len(s) : s[i] = x

getCorridorAlerts(alerts) ==
    SelectSeq(alerts, LAMBDA a :
        /\ a.isActive
        /\ \E i \in 1..Len(a.routeIds) :
              \E prefix \in CORRIDOR_ROUTE_PREFIXES : IsPrefix(prefix, a.routeIds[i]))

\* getAlertsForMovement without the test of isActive
getAlertsForMovement_IgnoresActive(alerts, tripId, routeId) ==
    SelectSeq(alerts, LAMBDA a :
        \/ IsSome(tripId) /\ SeqHas(a.tripIds, Val(tripId))
        \/ /\ IsSome(routeId)
           /\ \E i \in 1..Len(a.routeIds) :
                 IsPrefix(BeforeUnderscore(a.routeIds[i], 1), Val(routeId)))

getAlertsForMovement(alerts, tripId, routeId) ==
    SelectSeq(alerts, LAMBDA a :
        /\ a.isActive
        /\ \/ IsSome(tripId) /\ SeqHas(a.tripIds, Val(tripId))
           \/ /\ IsSome(routeId)
              /\ \E i \in 1..Len(a.routeIds) :
                    IsPrefix(BeforeUnderscore(a.routeIds[i], 1), Val(routeId)))

\* a.cause.replace(/_/g, " ").toLowerCase() for the causes of CAUSE_LABELS
CauseText(cause) ==
    CASE cause = "OTHER_CAUSE" -> "other cause"
      [] cause = "TECHNICAL_PROBLEM" -> "technical problem"
      [] cause = "STRIKE" -> "strike"
      [] cause = "DEMONSTRATION" -> "demonstration"
      [] cause = "ACCIDENT" -> "accident"
      [] cause = "HOLIDAY" -> "holiday"
      [] cause = "WEATHER" -> "weather"
      [] cause = "MAINTENANCE" -> "maintenance"
      [] cause = "CONSTRUCTION" -> "construction"
      [] cause = "POLICE_ACTIVITY" -> "police activity"
      [] cause = "MEDICAL_EMERGENCY" -> "medical emergency"
      [] OTHER -> "unknown cause"

\* `${a.header}${causeLabel}` as the sequence of its parts
AlertDisruption(a) ==
    IF a.cause # "UNKNOWN_CAUSE"
    THEN a.header \o " (" \o CauseText(a.cause) \o ")"
    ELSE a.header

\* AttachAlerts rebuilding the movement without its position
AttachAlerts_DropsPosition(m, alerts) ==
    LET matchingAlerts == getAlertsForMovement(alerts, m.tripId, m.routeId)
    IN  IF Len(matchingAlerts) > 0
        THEN [m EXCEPT !.disruptions = m.disruptions \o MapSeq(matchingAlerts, AlertDisruption),
                       !.vehiclePosition = None]
        ELSE m

\* step 5 of getCorridorMovements for one movement
AttachAlerts(m, alerts) ==
    LET matchingAlerts == getAlertsForMovement(alerts, m.tripId, m.routeId)
    IN  IF Len(matchingAlerts) > 0
        THEN [m EXCEPT !.disruptions = m.disruptions \o MapSeq(matchingAlerts, AlertDisruption)]
        ELSE m

\* entities a decoded alert feed can hold
RouteAlertEntity ==
    [id |-> "alert-route", cause |-> "MAINTENANCE", header |-> "Trackwork",
     routeIds |-> <<RouteCCN1a>>, tripIds |-> << >>, activePeriod |-> << >>]

TripAlertEntity ==
    [id |-> "alert-trip", cause |-> "UNKNOWN_CAUSE", header |-> "Late running",
     routeIds |-> << >>, tripIds |-> <<TripIdOf(1)>>,
     activePeriod |-> << [start |-> Some(Day1), end |-> Some(AlertEnd)] >>]

AlertFeeds == { <<RouteAlertEntity, TripAlertEntity>> }

\* processServiceAlerts(): rejects, or fulfils offline without alerts, or
\* fulfils online with the alerts of the feed
ServiceAlertOutcomes(clock) ==
    {[kind |-> "rejected", feedStatus |-> None, alerts |-> << >>]}
    \cup {[kind |-> "fulfilled",
           feedStatus |-> Some(OfflineFeed("GTFS-RT Service Alerts", "tfnsw-gtfs-static",
                                           "Failed to fetch Service Alerts")),
           alerts |-> << >>]}
    \cup {[kind |-> "fulfilled",
           feedStatus |-> Some(OnlineFeed("GTFS-RT Service Alerts", "tfnsw-gtfs-static")),
           alerts |-> MapSeq(feed, LAMBDA e : ToServiceAlert(e, clock))] :
            feed \in AlertFeeds}

----------------------------------------------------------------------------
\* Corridor aggregator (src/lib/corridor.ts)

\* applyFilters dropping the last movement that passes, as a page limit would
applyFilters_DropsLast(ms, f) ==
    LET kept == SelectSeq(ms, LAMBDA m :
                    /\ ~(f.station = "cardiff" /\ ~IsSome(m.cardiffCall))
                    /\ ~(f.station = "kotara" /\ ~IsSome(m.kotaraCall))
                    /\ ~(f.direction # "both" /\ m.direction # f.direction)
                    /\ ~(f.type = "passenger" /\ m.serviceType # "passenger")
                    /\ ~(f.type = "freight" /\ m.serviceType # "freight")
                    /\ ~(f.status # "all" /\ m.status # f.status))
    IN  IF Len(kept) = 0 THEN kept ELSE SubSeq(kept, 1, Len(kept) - 1)

\* applyFilters handing out the kept movements with their status recomputed
\* from the timetable
applyFilters_ResetsStatus(ms, f) ==
    LET kept == SelectSeq(ms, LAMBDA m :
                    /\ ~(f.station = "cardiff" /\ ~IsSome(m.cardiffCall))
                    /\ ~(f.station = "kotara" /\ ~IsSome(m.kotaraCall))
                    /\ ~(f.direction # "both" /\ m.direction # f.direction)
                    /\ ~(f.type = "passenger" /\ m.serviceType # "passenger")
                    /\ ~(f.type = "freight" /\ m.serviceType # "freight")
                    /\ ~(f.status # "all" /\ m.status # f.status))
    IN  [i \in 1..Len(kept) |->
            IF kept[i].status = "completed"
            THEN [kept[i] EXCEPT !.status = "scheduled"] ELSE kept[i]]

applyFilters(ms, f) ==
    SelectSeq(ms, LAMBDA m :
        /\ ~(f.station = "cardiff" /\ ~IsSome(m.cardiffCall))
        /\ ~(f.station = "kotara" /\ ~IsSome(m.kotaraCall))
        /\ ~(f.direction # "both" /\ m.direction # f.direction)
        /\ ~(f.type = "passenger" /\ m.serviceType # "passenger")
        /\ ~(f.type = "freight" /\ m.serviceType # "freight")
        /\ ~(f.status # "all" /\ m.status # f.status))

\* the sort key: new Date(a.estimatedTime || a.scheduledTime).getTime()
SortKey(m) == Val(OrElse(m.estimatedTime, Some(m.scheduledTime)))

RECURSIVE InsertSorted_Descending(_, _)
\* InsertSorted for the comparator timeB - timeA
InsertSorted_Descending(sorted, m) ==
    IF Len(sorted) = 0 THEN <<m>>
    ELSE IF SortKey(m) - SortKey(sorted[Len(sorted)]) <= 0 THEN Append(sorted, m)
    ELSE Append(InsertSorted_Descending(SubSeq(sorted, 1, Len(sorted) - 1), m),
                sorted[Len(sorted)])

RECURSIVE InsertSorted(_, _)
\* insert m behind every element whose key is not greater (a stable sort)
InsertSorted(sorted, m) ==
    IF Len(sorted) = 0 THEN <<m>>
    ELSE IF SortKey(sorted[Len(sorted)]) - SortKey(m) <= 0 THEN Append(sorted, m)
    ELSE Append(InsertSorted(SubSeq(sorted, 1, Len(sorted) - 1), m), sorted[Len(sorted)])

RECURSIVE SortFrom(_, _, _)
SortFrom(ms, sorted, i) ==
    IF i > Len(ms) THEN sorted
    ELSE SortFrom(ms, InsertSorted(sorted, ms[i]), i + 1)

\* [...movements].sort((a, b) => timeA - timeB); Array.prototype.sort is stable
sortMovements(ms) == SortFrom(ms, << >>, 1)

\* c.estimatedDeparture || c.scheduledDeparture of an optional call
BestDeparture(call) ==
    IF IsSome(call) THEN OrElse(Val(call).estimatedDeparture, Val(call).scheduledDeparture)
    ELSE None

\* the latest corridor departure: first element of the descending sort
LastDeparture(m) ==
    LET c == BestDeparture(m.cardiffCall)
        k == BestDeparture(m.kotaraCall)
    IN  IF IsSome(c) /\ IsSome(k) THEN (IF Val(c) >= Val(k) THEN c ELSE k)
        ELSE OrElse(c, k)

\* MarkCompleted without the early return for a cancelled movement
MarkCompleted_NoCancelGuard(m, n) ==
    IF /\ IsSome(LastDeparture(m))
       /\ Val(LastDeparture(m)) # 0
       /\ Val(LastDeparture(m)) < n - 5 * Minute
       /\ m.status # "live"
    THEN [m EXCEPT !.status = "completed"]
    ELSE m

\* MarkCompleted with <= for <: completed at exactly five minutes
MarkCompleted_AtFiveMinutes(m, n) ==
    IF m.status = "cancelled" THEN m
    ELSE IF /\ IsSome(LastDeparture(m))
            /\ Val(LastDeparture(m)) # 0
            /\ Val(LastDeparture(m)) <= n - 5 * Minute
            /\ m.status # "live"
    THEN [m EXCEPT !.status = "completed"]
    ELSE m

\* one element of the map of markCompletedMovements
MarkCompleted(m, n) ==
    IF m.status = "cancelled" THEN m
    ELSE IF /\ IsSome(LastDeparture(m))
            /\ Val(LastDeparture(m)) # 0
            /\ Val(LastDeparture(m)) < n - 5 * Minute
            /\ m.status # "live"
    THEN [m EXCEPT !.status = "completed"]
    ELSE m

markCompletedMovements(ms, n) == [i \in 1..Len(ms) |-> MarkCompleted(ms[i], n)]

----------------------------------------------------------------------------
\* The schedule source under several callers (src/lib/tfnsw/gtfs-static.ts):
\* getScheduledMovementsAsync cut at its two awaits

\* number of invocations of getScheduledMovementsAsync, which may overlap
NumCalls == 2

CallIds == 1..NumCalls

\* Date.now() when the first calls are made, 23:40 of day 1, and once the
\* cache's lifetime has passed, 05:45 of day 2
FirstClock == Day1 + 23 * Hour + 40 * Minute
LaterClock == FirstClock + CACHE_TTL_MS + 5 * Minute

\* fetchAndParseGTFS() as the schedule source sees it around midnight: null,
\* or a timetable with night trips, with no active trip, or with an empty
\* departure_time
SourceOutcomes(t) ==
    {None} \cup {Some(ParsedSchedule(kind, t)) :
                    kind \in {"night", "gap", "blank-time"}}

\* the windows getCorridorMovements asks for
TimeWindows == {"now", "next-2h", "today"}

\* an invocation: parsed and reParsed are None until the await has settled,
\* then Some of what fetchAndParseGTFS returned
IdleCall ==
    [pc |-> "idle", from |-> 0, to |-> 0, parsed |-> None, reParsed |-> None,
     result |-> << >>]

\* lines 404-414: the movements of the day of `from` and, if the window
\* crosses midnight, of the next day
BuildForWindow(schedule, from, to) ==
    LET dayStart == startOfDay(from)
        today == buildMovementsFromGTFS(schedule, dayStart)
        nextDay == IF getDate(to) # getDate(from)
                   THEN buildMovementsFromGTFS(schedule, addDays(dayStart, 1))
                   ELSE [threw |-> FALSE, movements |-> << >>]
    IN  IF today.threw \/ nextDay.threw
        THEN [threw |-> TRUE, movements |-> << >>]
        ELSE [threw |-> FALSE, movements |-> today.movements \o nextDay.movements]

\* lines 441-445: the return statement
ReturnMovements(call, ms) ==
    [call EXCEPT !.pc = "returned",
                 !.result = FilterToWindow(ms, call.from, call.to)]

\* lines 403-440 from `if (cachedSchedule)` to the second await or the return
AfterCache(call, cache) ==
    IF ~IsSome(cache)
    THEN ReturnMovements(call, generateFallbackSchedule(call.from, call.to))
    ELSE LET built == BuildForWindow(Val(cache), call.from, call.to)
         IN  IF built.threw THEN [call EXCEPT !.pc = "threw"]
             ELSE IF Len(built.movements) = 0
             THEN [call EXCEPT !.pc = "await-refetch"]
             ELSE ReturnMovements(call, built.movements)

\* lines 424-434: from the second await to the return
AfterRefetch(call, reParsed) ==
    LET again == IF IsSome(reParsed)
                 THEN buildMovementsFromGTFS(Val(reParsed), startOfDay(call.from))
                 ELSE [threw |-> FALSE, movements |-> << >>]
    IN  IF again.threw THEN [call EXCEPT !.pc = "threw"]
        ELSE ReturnMovements(call,
                IF Len(again.movements) = 0
                THEN generateFallbackSchedule(call.from, call.to)
                ELSE again.movements)

\* getScheduledMovementsAsync(from, to) is called: with a valid cache it runs
\* to its end or to the second await, else it awaits fetchAndParseGTFS()
CallSource(c) ==
    /\ calls[c].pc = "idle"
    /\ \E tw \in TimeWindows :
          LET w == getTimeWindow(tw, wallClock)
              started == [IdleCall EXCEPT !.from = w.from, !.to = w.to]
          IN  calls' = [calls EXCEPT ![c] =
                           IF ~isCacheValid(cachedSchedule, wallClock)
                           THEN [started EXCEPT !.pc = "await-fetch"]
                           ELSE AfterCache(started, cachedSchedule)]
    /\ UNCHANGED <<cycleVars, cachedSchedule, wallClock, lastParsed, hookVars,
                   mapVars, pollVars>>

\* the first await settles: `if (parsed) cachedSchedule = parsed`, then on
FetchSettles(c) ==
    /\ calls[c].pc = "await-fetch"
    /\ \E parsed \in SourceOutcomes(wallClock) :
          LET cache1 == IF IsSome(parsed) THEN parsed ELSE cachedSchedule
          IN  /\ cachedSchedule' = cache1
              /\ lastParsed' = IF IsSome(parsed) THEN parsed ELSE lastParsed
              /\ calls' = [calls EXCEPT ![c] =
                              AfterCache([calls[c] EXCEPT !.parsed = Some(parsed)],
                                         cache1)]
    /\ UNCHANGED <<cycleVars, wallClock, hookVars, mapVars, pollVars>>

\* the second await settles: `if (reParsed) { cachedSchedule = reParsed; ... }`
RefetchSettles(c) ==
    /\ calls[c].pc = "await-refetch"
    /\ \E reParsed \in SourceOutcomes(wallClock) :
          /\ cachedSchedule' = IF IsSome(reParsed) THEN reParsed ELSE cachedSchedule
          /\ lastParsed' = IF IsSome(reParsed) THEN reParsed ELSE lastParsed
          /\ calls' = [calls EXCEPT ![c] =
                          AfterRefetch([calls[c] EXCEPT !.reParsed = Some(reParsed)],
                                       reParsed)]
    /\ UNCHANGED <<cycleVars, wallClock, hookVars, mapVars, pollVars>>

\* time passes until the cache has expired
Tick ==
    /\ wallClock = FirstClock
    /\ wallClock' = LaterClock
    /\ UNCHANGED <<cycleVars, cachedSchedule, calls, lastParsed, hookVars, mapVars, pollVars>>

ScheduleNext ==
    \/ \E c \in CallIds : CallSource(c)
    \/ \E c \in CallIds : FetchSettles(c)
    \/ \E c \in CallIds : RefetchSettles(c)
    \/ Tick

----------------------------------------------------------------------------
\* The client poll (src/hooks/useMovements.ts)

\* number of times fetchMovements is called while the component is mounted
MaxRequests == 3

\* AbortInFlight leaving the earlier request alone
AbortInFlight_None(reqs, current) == reqs

\* `if (abortRef.current) abortRef.current.abort()`: the signal of the
\* request the current controller belongs to is aborted
AbortInFlight(reqs, current) ==
    IF IsSome(current)
    THEN [reqs EXCEPT ![Val(current)].aborted = TRUE]
    ELSE reqs

\* a request is "fetching" at `await fetch(...)`, "reading" at
\* `await response.json()`, then "settled"
Unsettled(req) == req.state \in {"fetching", "reading"}

\* fetchMovements(isAutoRefresh) up to `await fetch(...)`: called by the
\* effect on mount and on a filter change, by the interval (auto refresh)
\* and by refresh()
FetchMovements(isAutoRefresh) ==
    /\ Len(requests) < MaxRequests
    /\ requests' = Append(AbortInFlight(requests, abortRef),
                          [state |-> "fetching", aborted |-> FALSE,
                           auto |-> isAutoRefresh])
    /\ abortRef' = Some(Len(requests) + 1)
    /\ loading' = IF ~isAutoRefresh THEN TRUE ELSE loading
    /\ UNCHANGED <<data, error>>
    /\ UNCHANGED <<cycleVars, cachedSchedule, sourceVars, mapVars, pollVars>>

\* the effect's cleanup (the filters changed or the component unmounts)
\* aborts the current controller
Cleanup ==
    /\ IsSome(abortRef)
    /\ Unsettled(requests[Val(abortRef)])
    /\ ~requests[Val(abortRef)].aborted
    /\ requests' = AbortInFlight(requests, abortRef)
    /\ UNCHANGED <<abortRef, data, loading, error>>
    /\ UNCHANGED <<cycleVars, cachedSchedule, sourceVars, mapVars, pollVars>>

\* `await fetch(...)` fulfils with the response headers: a response that is
\* not ok is thrown as an error, an ok one is read
HeadersArrive(r) ==
    /\ requests[r].state = "fetching"
    /\ ~requests[r].aborted
    /\ \E ok \in BOOLEAN :
          IF ok
          THEN /\ requests' = [requests EXCEPT ![r].state = "reading"]
               /\ UNCHANGED <<loading, error>>
          ELSE /\ requests' = [requests EXCEPT ![r].state = "settled"]
               /\ error' = Some("API error")
               /\ loading' = FALSE
    /\ UNCHANGED <<abortRef, data>>
    /\ UNCHANGED <<cycleVars, cachedSchedule, sourceVars, mapVars, pollVars>>

\* `await fetch(...)` rejects for a network failure
FetchRejects(r) ==
    /\ requests[r].state = "fetching"
    /\ ~requests[r].aborted
    /\ requests' = [requests EXCEPT ![r].state = "settled"]
    /\ error' = Some("Failed to fetch movements")
    /\ loading' = FALSE
    /\ UNCHANGED <<abortRef, data>>
    /\ UNCHANGED <<cycleVars, cachedSchedule, sourceVars, mapVars, pollVars>>

\* `await response.json()` fulfils: setData, setError(null), and in the
\* finally block setLoading(false)
BodyArrives(r) ==
    /\ requests[r].state = "reading"
    /\ ~requests[r].aborted
    /\ requests' = [requests EXCEPT ![r].state = "settled"]
    /\ data' = Some(r)
    /\ error' = None
    /\ loading' = FALSE
    /\ UNCHANGED abortRef
    /\ UNCHANGED <<cycleVars, cachedSchedule, sourceVars, mapVars, pollVars>>

\* the pending await of an aborted request rejects with an AbortError: the
\* catch block returns, the finally block runs setLoading(false)
AbortObserved(r) ==
    /\ Unsettled(requests[r])
    /\ requests[r].aborted
    /\ requests' = [requests EXCEPT ![r].state = "settled"]
    /\ loading' = FALSE
    /\ UNCHANGED <<abortRef, data, error>>
    /\ UNCHANGED <<cycleVars, cachedSchedule, sourceVars, mapVars, pollVars>>

HookNext ==
    \/ \E isAutoRefresh \in BOOLEAN : FetchMovements(isAutoRefresh)
    \/ Cleanup
    \/ \E r \in 1..Len(requests) : HeadersArrive(r)
    \/ \E r \in 1..Len(requests) : FetchRejects(r)
    \/ \E r \in 1..Len(requests) : BodyArrives(r)
    \/ \E r \in 1..Len(requests) : AbortObserved(r)

----------------------------------------------------------------------------
\* Requests

DefaultFilters ==
    [station |-> "both", direction |-> "both", type |-> "all",
     status |-> "all", timeWindow |-> "now"]

\* the filter sets requests are made with
FilterChoices ==
    { DefaultFilters,
      [DefaultFilters EXCEPT !.type = "passenger"],
      [DefaultFilters EXCEPT !.type = "freight", !.timeWindow = "today"],
      [DefaultFilters EXCEPT !.status = "completed", !.timeWindow = "next-2h"],
      [DefaultFilters EXCEPT !.station = "kotara", !.direction = "towards-sydney",
                             !.timeWindow = "today"] }

\* the instants cycles start at: 08:03 and 08:12 of day 1
Nows == { Day1 + 8 * Hour + 3 * Minute,
          Day1 + 8 * Hour + 12 * Minute }

Pending == [kind |-> "pending", feedStatus |-> None]

NoResponse == [kind |-> "none"]

----------------------------------------------------------------------------
\* Corridor geometry (src/lib/rail-geometry.ts).  A coordinate is a whole
\* number of 1e-7 degrees, a point is <<lat, lng>>, a distance is a whole
\* number of the same unit.

\* the stitched track, south to north; element i + 1 is RAIL_PATH[i]
RAIL_PATH ==
    <<
       <<-329434264, 1516668132>>, <<-329432879, 1516681841>>, <<-329432281, 1516687582>>,
       <<-329431949, 1516690146>>, <<-329431621, 1516692311>>, <<-329431287, 1516693889>>,
       <<-329430827, 1516695713>>, <<-329430198, 1516697686>>, <<-329429572, 1516699479>>,
       <<-329428732, 1516701370>>, <<-329427803, 1516703301>>, <<-329426547, 1516705431>>,
       <<-329425748, 1516706729>>, <<-329424059, 1516708960>>, <<-329422577, 1516710587>>,
       <<-329421347, 1516711815>>, <<-329419884, 1516713172>>, <<-329417590, 1516715059>>,
       <<-329412598, 1516718906>>, <<-329411714, 1516719625>>, <<-329410026, 1516721046>>,
       <<-329408704, 1516722257>>, <<-329407153, 1516723847>>, <<-329406249, 1516724923>>,
       <<-329404923, 1516726653>>, <<-329403706, 1516728459>>, <<-329402229, 1516731053>>,
       <<-329401401, 1516732790>>, <<-329400604, 1516734689>>, <<-329399925, 1516736631>>,
       <<-329399389, 1516738474>>, <<-329399169, 1516739291>>, <<-329398549, 1516742141>>,
       <<-329397921, 1516746177>>, <<-329394362, 1516773407>>, <<-329393791, 1516778491>>,
       <<-329393529, 1516783692>>, <<-329393586, 1516788311>>, <<-329393908, 1516793428>>,
       <<-329394574, 1516798127>>, <<-329395486, 1516802978>>, <<-329396612, 1516807431>>,
       <<-329398132, 1516812140>>, <<-329400007, 1516816865>>, <<-329401106, 1516819303>>,
       <<-329401952, 1516820975>>, <<-329403370, 1516823614>>, <<-329404302, 1516825208>>,
       <<-329406727, 1516828957>>, <<-329409575, 1516832934>>, <<-329412683, 1516836761>>,
       <<-329421366, 1516845923>>, <<-329432321, 1516857501>>, <<-329435605, 1516861066>>,
       <<-329439694, 1516866098>>, <<-329441074, 1516868663>>, <<-329442141, 1516871027>>,
       <<-329443963, 1516875990>>, <<-329444378, 1516877591>>, <<-329445233, 1516880880>>,
       <<-329445870, 1516884115>>, <<-329446326, 1516887393>>, <<-329446590, 1516890490>>,
       <<-329446713, 1516893257>>, <<-329446702, 1516896357>>, <<-329446427, 1516899986>>,
       <<-329445880, 1516903892>>, <<-329444858, 1516908285>>, <<-329443981, 1516911379>>,
       <<-329442243, 1516915878>>, <<-329440490, 1516919552>>, <<-329437356, 1516925028>>,
       <<-329435133, 1516928540>>, <<-329430307, 1516936559>>, <<-329427839, 1516941147>>,
       <<-329427020, 1516943088>>, <<-329425605, 1516946441>>, <<-329424125, 1516950622>>,
       <<-329423404, 1516952890>>, <<-329422332, 1516956487>>, <<-329421263, 1516960218>>,
       <<-329419355, 1516966805>>, <<-329418716, 1516969005>>, <<-329417591, 1516972478>>,
       <<-329415173, 1516978930>>, <<-329414025, 1516982145>>, <<-329413091, 1516985301>>,
       <<-329412660, 1516986943>>, <<-329412176, 1516989054>>, <<-329411780, 1516991083>>,
       <<-329411431, 1516992998>>, <<-329410682, 1516996555>>, <<-329409954, 1516999791>>,
       <<-329409176, 1517002734>>, <<-329408924, 1517003672>>
    >>

CARDIFF_PATH_INDEX == 1

KOTARA_PATH_INDEX == 60

Abs(x) == IF x < 0 THEN -x ELSE x

\* Math.sqrt(dLat ** 2 + dLng ** 2), rounded down to the unit: the root
\* lies between the longer leg and the sum of the legs
SegmentLength(p, q) ==
    LET a == Abs(q[1] - p[1])
        b == Abs(q[2] - p[2])
        longer == IF a > b THEN a ELSE b
    IN  CHOOSE r \in longer..(a + b) :
            r * r <= a * a + b * b /\ a * a + b * b < (r + 1) * (r + 1)

computeCumulativeDistances(path) ==
    LET distances[i \in 1..Len(path)] ==
            IF i = 1 THEN 0
            ELSE distances[i - 1] + SegmentLength(path[i - 1], path[i])
    IN  [i \in 1..Len(path) |-> distances[i]]

CUMULATIVE == computeCumulativeDistances(RAIL_PATH)

TOTAL_PATH_LENGTH == CUMULATIVE[Len(CUMULATIVE)]
CARDIFF_DISTANCE == CUMULATIVE[CARDIFF_PATH_INDEX + 1]
KOTARA_DISTANCE == CUMULATIVE[KOTARA_PATH_INDEX + 1]

\* A normalised track position is kept exact, as the pair num, den that
\* stands for num / (den * TOTAL_PATH_LENGTH), den > 0.
Normalised(num, den) == [num |-> num, den |-> den]

\* the first i >= from with CUMULATIVE[i] >= targetDist, 0 if there is none
RECURSIVE FirstSegment(_, _)
FirstSegment(t, from) ==
    IF from > Len(CUMULATIVE) THEN 0
    ELSE IF CUMULATIVE[from] * t.den >= t.num THEN from
    ELSE FirstSegment(t, from + 1)

\* interpolateOnPath(t): the point of the track at t of its length; the
\* offset into the segment is rounded down to the unit
interpolateOnPath(t) ==
    LET clamped == IF t.num < 0 THEN Normalised(0, t.den)
                   ELSE IF t.num > t.den * TOTAL_PATH_LENGTH
                   THEN Normalised(t.den * TOTAL_PATH_LENGTH, t.den)
                   ELSE t
        i == FirstSegment(clamped, 2)
    IN  IF i = 0 THEN RAIL_PATH[Len(RAIL_PATH)]
        ELSE LET segStart == CUMULATIVE[i - 1]
                 segEnd == CUMULATIVE[i]
                 offset == (clamped.num - segStart * clamped.den) \div clamped.den
                 p1 == RAIL_PATH[i - 1]
                 p2 == RAIL_PATH[i]
             IN  IF segEnd = segStart THEN p1
                 ELSE << p1[1] + ((p2[1] - p1[1]) * offset) \div (segEnd - segStart),
                         p1[2] + ((p2[2] - p1[2]) * offset) \div (segEnd - segStart) >>

\* the configured coordinates of the two stations.  The tree holds two
\* copies of stations.ts: they agree on Cardiff and differ on Kotara
CARDIFF_ANCHORS == { <<-329432879, 1516681841>> }

KOTARA_ANCHORS == { <<-329445870, 1516884115>>, <<-329424125, 1516950622>> }

----------------------------------------------------------------------------
\* Position estimator (src/components/MapView.tsx)

\* new Date(estimatedDeparture || scheduledDeparture || estimatedArrival ||
\* scheduledArrival || "").getTime() of a call, None for an absent call, for
\* NaN and for 0, which the test !cardiffTime all reject
CallTime(call) ==
    IF ~IsSome(call) THEN None
    ELSE LET c == Val(call)
             t == OrElse(c.estimatedDeparture,
                         OrElse(c.scheduledDeparture,
                                OrElse(c.estimatedArrival, c.scheduledArrival)))
         IN  IF IsSome(t) /\ Val(t) # 0 THEN t ELSE None

APPROACH_MS == 3 * 60

\* estimatePositionT with a padding of two minutes
estimatePositionT_TwoMinutes(movement, clock) ==
    LET cardiffTime == CallTime(movement.cardiffCall)
        kotaraTime == CallTime(movement.kotaraCall)
    IN  IF ~IsSome(cardiffTime) \/ ~IsSome(kotaraTime) THEN None
        ELSE
          LET isTowardsNewcastle == movement.direction = "towards-newcastle"
              entryTime == IF isTowardsNewcastle THEN Val(cardiffTime) ELSE Val(kotaraTime)
              exitTime == IF isTowardsNewcastle THEN Val(kotaraTime) ELSE Val(cardiffTime)
              entryDist == IF isTowardsNewcastle THEN CARDIFF_DISTANCE ELSE KOTARA_DISTANCE
              exitDist == IF isTowardsNewcastle THEN KOTARA_DISTANCE ELSE CARDIFF_DISTANCE
              padding == 2 * 60
              approachStart == entryTime - padding
              departureEnd == exitTime + padding
          IN  IF clock < approachStart \/ clock > departureEnd THEN None
              ELSE IF clock < entryTime
              THEN LET approachStartDist == IF isTowardsNewcastle THEN 0
                                            ELSE TOTAL_PATH_LENGTH
                   IN  Some(Normalised(approachStartDist * padding
                                         + (entryDist - approachStartDist)
                                           * (clock - approachStart),
                                       padding))
              ELSE IF clock <= exitTime
              THEN IF exitTime = entryTime
                   THEN Some(Normalised(entryDist + (exitDist - entryDist), 1))
                   ELSE Some(Normalised(entryDist * (exitTime - entryTime)
                                          + (exitDist - entryDist) * (clock - entryTime),
                                        exitTime - entryTime))
              ELSE LET departEndDist == IF isTowardsNewcastle THEN TOTAL_PATH_LENGTH
                                        ELSE 0
                   IN  Some(Normalised(exitDist * padding
                                         + (departEndDist - exitDist) * (clock - exitTime),
                                       padding))

\* estimatePositionT(movement, now), times in seconds: None for null
estimatePositionT(movement, clock) ==
    LET cardiffTime == CallTime(movement.cardiffCall)
        kotaraTime == CallTime(movement.kotaraCall)
    IN  IF ~IsSome(cardiffTime) \/ ~IsSome(kotaraTime) THEN None
        ELSE
          LET isTowardsNewcastle == movement.direction = "towards-newcastle"
              entryTime == IF isTowardsNewcastle THEN Val(cardiffTime) ELSE Val(kotaraTime)
              exitTime == IF isTowardsNewcastle THEN Val(kotaraTime) ELSE Val(cardiffTime)
              entryDist == IF isTowardsNewcastle THEN CARDIFF_DISTANCE ELSE KOTARA_DISTANCE
              exitDist == IF isTowardsNewcastle THEN KOTARA_DISTANCE ELSE CARDIFF_DISTANCE
              approachStart == entryTime - APPROACH_MS
              departureEnd == exitTime + APPROACH_MS
          IN  IF clock < approachStart \/ clock > departureEnd THEN None
              ELSE IF clock < entryTime
              THEN LET approachStartDist == IF isTowardsNewcastle THEN 0
                                            ELSE TOTAL_PATH_LENGTH
                   IN  Some(Normalised(approachStartDist * APPROACH_MS
                                         + (entryDist - approachStartDist)
                                           * (clock - approachStart),
                                       APPROACH_MS))
              ELSE IF clock <= exitTime
              THEN IF exitTime = entryTime
                   THEN Some(Normalised(entryDist + (exitDist - entryDist), 1))
                   ELSE Some(Normalised(entryDist * (exitTime - entryTime)
                                          + (exitDist - entryDist) * (clock - entryTime),
                                        exitTime - entryTime))
              ELSE LET departEndDist == IF isTowardsNewcastle THEN TOTAL_PATH_LENGTH
                                        ELSE 0
                   IN  Some(Normalised(exitDist * APPROACH_MS
                                         + (departEndDist - exitDist) * (clock - exitTime),
                                       APPROACH_MS))

\* one pass of update() in useAnimatedPositions over the movements prop:
\* cancelled and completed movements are left out, a live position is
\* taken as it is, any other movement is placed by the estimator
RECURSIVE UpdateFrom(_, _, _)
UpdateFrom(ms, clock, i) ==
    IF i > Len(ms) THEN << >>
    ELSE LET m == ms[i]
             t == estimatePositionT(m, clock)
             rest == UpdateFrom(ms, clock, i + 1)
         IN  IF m.status \in {"cancelled", "completed"} THEN rest
             ELSE IF IsSome(m.vehiclePosition)
             THEN <<[id |-> m.id, isLive |-> TRUE, point |-> None, tValue |-> None]>>
                  \o rest
             ELSE IF IsSome(t)
             THEN <<[id |-> m.id, isLive |-> FALSE,
                     point |-> Some(interpolateOnPath(Val(t))), tValue |-> t]>>
                  \o rest
             ELSE rest

\* the instants the map is looked at: 07:55 to 08:30
MapStart == Day1 + 7 * Hour + 55 * Minute
MapEnd == Day1 + 8 * Hour + 30 * Minute

\* the timer's period in the model, half a minute
MapStep == Minute \div 2

\* trip updates that name the first station only and leave the second at
\* its scheduled time: four minutes late the two times coincide, five
\* minutes late the first station's time is the later one
LateAtFirstStop == {4 * Minute, 5 * Minute}

MapUpdateMaps ==
    UpdateMaps
    \cup {[t \in {TripIdOf(1)} |->
              [cancelled |-> FALSE,
               stopTimeUpdates |-> << StopUpdate(CARDIFF, Some(d), None) >>]] :
            d \in LateAtFirstStop}

\* the movement lists MapView is given: the published timetable after the
\* merge and the completion rule of a cycle
MapMovementLists ==
    { markCompletedMovements(
          mergeRealtimeData(
              buildMovementsFromGTFS(ParsedSchedule("published", Day1), Day1).movements,
              u, p), n) :
        u \in MapUpdateMaps, p \in PositionMaps, n \in Nows }

\* the movements prop changes: the effect runs update() at once
Render ==
    /\ \E ms \in MapMovementLists :
          /\ mapMovements' = ms
          /\ mapPositions' = UpdateFrom(ms, mapClock, 1)
    /\ UNCHANGED mapClock
    /\ UNCHANGED <<cycleVars, cachedSchedule, sourceVars, hookVars, pollVars>>

\* the timer fires: update() runs at the new instant
TimerTick ==
    /\ mapClock < MapEnd
    /\ mapClock' = mapClock + MapStep
    /\ mapPositions' = UpdateFrom(mapMovements, mapClock + MapStep, 1)
    /\ UNCHANGED mapMovements
    /\ UNCHANGED <<cycleVars, cachedSchedule, sourceVars, hookVars, pollVars>>

MapNext ==
    \/ Render
    \/ TimerTick

----------------------------------------------------------------------------
\* The cycle

Init ==
    /\ pc = "idle"
    /\ filters = DefaultFilters
    /\ now = 0
    /\ cachedSchedule = None
    /\ scheduledMovements = << >>
    /\ movements = << >>
    /\ feeds = << >>
    /\ allAlerts = << >>
    /\ corridorAlerts = << >>
    /\ fallbackActive = FALSE
    /\ fallbackReason = None
    /\ tripUpdatesResult = Pending
    /\ vehiclePositionsResult = Pending
    /\ response = NoResponse
    /\ wallClock = FirstClock
    /\ calls = [c \in CallIds |-> IdleCall]
    /\ lastParsed = None
    /\ requests = << >>
    /\ abortRef = None
    /\ data = None
    /\ loading = TRUE
    /\ error = None
    /\ mapMovements = << >>
    /\ mapClock = MapStart
    /\ mapPositions = << >>
    /\ liveBefore = {}

\* GET /api/movements reads the filters and calls getCorridorMovements,
\* which takes `now` and opens the empty feed list
Start ==
    /\ pc = "idle"
    /\ \E f \in FilterChoices : filters' = f
    /\ \E n \in Nows : now' = n
    /\ pc' = "fetch-schedule"
    /\ UNCHANGED <<cachedSchedule, scheduledMovements, movements, feeds, allAlerts,
                   corridorAlerts, fallbackActive, fallbackReason,
                   tripUpdatesResult, vehiclePositionsResult, response>>
    /\ UNCHANGED <<sourceVars, hookVars, mapVars, pollVars>>

StaticFeed(count) ==
    [name |-> "GTFS Static Schedule", source |-> "tfnsw-gtfs-static",
     status |-> IF count > 0 THEN "online" ELSE "degraded", error |-> None]

\* step 1: await getScheduledMovementsAsync(from, to), outside any try
FetchSchedule ==
    /\ pc = "fetch-schedule"
    /\ \E fetch1 \in FetchOutcomes(now), fetch2 \in FetchOutcomes(now) :
          LET w == getTimeWindow(filters.timeWindow, now)
              r == getScheduledMovementsAsync(cachedSchedule, now, fetch1, fetch2,
                                              w.from, w.to)
          IN  /\ cachedSchedule' = r.cache
              /\ IF r.threw
                 THEN /\ pc' = "threw"
                      /\ UNCHANGED <<scheduledMovements, feeds>>
                 ELSE /\ pc' = "fetch-alerts"
                      /\ scheduledMovements' = r.movements
                      /\ feeds' = Append(feeds, StaticFeed(Len(r.movements)))
    /\ UNCHANGED <<filters, now, movements, allAlerts, corridorAlerts, fallbackActive,
                   fallbackReason, tripUpdatesResult, vehiclePositionsResult, response>>
    /\ UNCHANGED <<sourceVars, hookVars, mapVars, pollVars>>

\* step 2: await processServiceAlerts() inside try/catch
FetchAlerts ==
    /\ pc = "fetch-alerts"
    /\ \E o \in ServiceAlertOutcomes(now) :
          IF o.kind = "fulfilled"
          THEN /\ allAlerts' = o.alerts
               /\ corridorAlerts' = getCorridorAlerts(o.alerts)
               /\ feeds' = Append(feeds, Val(o.feedStatus))
          ELSE /\ feeds' = Append(feeds, OfflineFeed("GTFS-RT Service Alerts",
                                                     "tfnsw-gtfs-static",
                                                     "Service alerts unavailable"))
               /\ UNCHANGED <<allAlerts, corridorAlerts>>
    /\ pc' = "fetch-realtime"
    /\ UNCHANGED <<filters, now, cachedSchedule, scheduledMovements, movements,
                   fallbackActive, fallbackReason, tripUpdatesResult,
                   vehiclePositionsResult, response>>
    /\ UNCHANGED <<sourceVars, hookVars, mapVars, pollVars>>

\* step 3: the two promises handed to Promise.all settle in either order
TripUpdatesSettle ==
    /\ pc = "fetch-realtime"
    /\ tripUpdatesResult.kind = "pending"
    /\ \E o \in TripUpdateOutcomes : tripUpdatesResult' = o
    /\ UNCHANGED <<pc, filters, now, cachedSchedule, scheduledMovements, movements, feeds,
                   allAlerts, corridorAlerts, fallbackActive, fallbackReason,
                   vehiclePositionsResult, response>>
    /\ UNCHANGED <<sourceVars, hookVars, mapVars, pollVars>>

VehiclePositionsSettle ==
    /\ pc = "fetch-realtime"
    /\ vehiclePositionsResult.kind = "pending"
    /\ \E o \in VehiclePositionOutcomes : vehiclePositionsResult' = o
    /\ UNCHANGED <<pc, filters, now, cachedSchedule, scheduledMovements, movements, feeds,
                   allAlerts, corridorAlerts, fallbackActive, fallbackReason,
                   tripUpdatesResult, response>>
    /\ UNCHANGED <<sourceVars, hookVars, mapVars, pollVars>>

\* BothOffline with || for &&
BothOffline_Either(tripUpdatesFeed, vehiclePositionsFeed) ==
    \/ tripUpdatesFeed.status = "offline"
    \/ vehiclePositionsFeed.status = "offline"

\* BothOffline testing for the FetchResult status "error", which no
\* FeedStatus has
BothOffline_FetchStatus(tripUpdatesFeed, vehiclePositionsFeed) ==
    /\ tripUpdatesFeed.status = "error"
    /\ vehiclePositionsFeed.status = "error"

\* the test "realtime was actually available" on the two feed statuses
BothOffline(tripUpdatesFeed, vehiclePositionsFeed) ==
    /\ tripUpdatesFeed.status = "offline"
    /\ vehiclePositionsFeed.status = "offline"

\* Promise.all fulfils once both promises have: the rest of the try block
MergeRealtime ==
    /\ pc = "fetch-realtime"
    /\ tripUpdatesResult.kind = "fulfilled"
    /\ vehiclePositionsResult.kind = "fulfilled"
    /\ feeds' = feeds \o <<Val(tripUpdatesResult.feedStatus),
                           Val(vehiclePositionsResult.feedStatus)>>
    /\ movements' = mergeRealtimeData(scheduledMovements, tripUpdatesResult.updates,
                                      vehiclePositionsResult.positions)
    /\ IF BothOffline(Val(tripUpdatesResult.feedStatus),
                      Val(vehiclePositionsResult.feedStatus))
       THEN /\ fallbackActive' = TRUE
            /\ fallbackReason' = Some("Realtime feeds are unavailable. Showing scheduled times only.")
       ELSE UNCHANGED <<fallbackActive, fallbackReason>>
    /\ pc' = "fetch-freight"
    /\ UNCHANGED <<filters, now, cachedSchedule, scheduledMovements, allAlerts,
                   corridorAlerts, tripUpdatesResult, vehiclePositionsResult, response>>
    /\ UNCHANGED <<sourceVars, hookVars, mapVars, pollVars>>

\* Promise.all rejects as soon as one promise has: the catch block
RealtimeFailed ==
    /\ pc = "fetch-realtime"
    /\ \/ tripUpdatesResult.kind = "rejected"
       \/ vehiclePositionsResult.kind = "rejected"
    /\ movements' = scheduledMovements
    /\ fallbackActive' = TRUE
    /\ fallbackReason' = Some("Realtime data unavailable. Showing scheduled times only.")
    /\ feeds' = feeds \o
          <<OfflineFeed("GTFS-RT Trip Updates", "tfnsw-gtfs-rt-trip-updates",
                        "Realtime data unavailable. Showing scheduled times only."),
            OfflineFeed("GTFS-RT Vehicle Positions", "tfnsw-gtfs-rt-vehicle-positions",
                        "Realtime data unavailable. Showing scheduled times only.")>>
    /\ pc' = "fetch-freight"
    /\ UNCHANGED <<filters, now, cachedSchedule, scheduledMovements, allAlerts,
                   corridorAlerts, tripUpdatesResult, vehiclePositionsResult, response>>
    /\ UNCHANGED <<sourceVars, hookVars, mapVars, pollVars>>

\* Promise.all fulfilled, line 166 pushed the two statuses and a later
\* statement of the try block threw: the catch block pushes its own two
MergeThrows ==
    /\ pc = "fetch-realtime"
    /\ tripUpdatesResult.kind = "fulfilled"
    /\ vehiclePositionsResult.kind = "fulfilled"
    /\ movements' = scheduledMovements
    /\ fallbackActive' = TRUE
    /\ fallbackReason' = Some("Realtime data unavailable. Showing scheduled times only.")
    /\ feeds' = feeds \o
          <<Val(tripUpdatesResult.feedStatus), Val(vehiclePositionsResult.feedStatus),
            OfflineFeed("GTFS-RT Trip Updates", "tfnsw-gtfs-rt-trip-updates",
                        "Realtime data unavailable. Showing scheduled times only."),
            OfflineFeed("GTFS-RT Vehicle Positions", "tfnsw-gtfs-rt-vehicle-positions",
                        "Realtime data unavailable. Showing scheduled times only.")>>
    /\ pc' = "fetch-freight"
    /\ UNCHANGED <<filters, now, cachedSchedule, scheduledMovements, allAlerts,
                   corridorAlerts, tripUpdatesResult, vehiclePositionsResult, response>>
    /\ UNCHANGED <<sourceVars, hookVars, mapVars, pollVars>>

\* step 4 is skipped for a passenger-only request
SkipFreight ==
    /\ pc = "fetch-freight"
    /\ filters.type = "passenger"
    /\ pc' = "correlate-alerts"
    /\ UNCHANGED <<filters, now, cachedSchedule, scheduledMovements, movements, feeds,
                   allAlerts, corridorAlerts, fallbackActive, fallbackReason,
                   tripUpdatesResult, vehiclePositionsResult, response>>
    /\ UNCHANGED <<sourceVars, hookVars, mapVars, pollVars>>

\* step 4: await getFreightMovements(now), freight filtered to the window
FetchFreight ==
    /\ pc = "fetch-freight"
    /\ filters.type # "passenger"
    /\ \E hasKey \in BOOLEAN, apiOk \in BOOLEAN :
          LET w == getTimeWindow(filters.timeWindow, now)
              freightResult == getFreightMovements(now, hasKey, apiOk)
          IN  /\ movements' = movements \o FilterToWindow(freightResult.movements,
                                                          w.from, w.to)
              /\ feeds' = Append(feeds, freightResult.feedStatus)
    /\ pc' = "correlate-alerts"
    /\ UNCHANGED <<filters, now, cachedSchedule, scheduledMovements, allAlerts,
                   corridorAlerts, fallbackActive, fallbackReason,
                   tripUpdatesResult, vehiclePositionsResult, response>>
    /\ UNCHANGED <<sourceVars, hookVars, mapVars, pollVars>>

\* step 4, the catch block: getFreightMovements rejected
FreightFailed ==
    /\ pc = "fetch-freight"
    /\ filters.type # "passenger"
    /\ feeds' = Append(feeds, OfflineFeed("Freight Data", "artc-freight-modelled",
                                          "Freight data unavailable"))
    /\ pc' = "correlate-alerts"
    /\ UNCHANGED <<filters, now, cachedSchedule, scheduledMovements, movements,
                   allAlerts, corridorAlerts, fallbackActive, fallbackReason,
                   tripUpdatesResult, vehiclePositionsResult, response>>
    /\ UNCHANGED <<sourceVars, hookVars, mapVars, pollVars>>

\* step 5: attach service alerts to individual movements
CorrelateAlerts ==
    /\ pc = "correlate-alerts"
    /\ movements' = IF Len(allAlerts) > 0
                    THEN [i \in 1..Len(movements) |-> AttachAlerts(movements[i], allAlerts)]
                    ELSE movements
    /\ pc' = "mark-completed"
    /\ UNCHANGED <<filters, now, cachedSchedule, scheduledMovements, feeds, allAlerts,
                   corridorAlerts, fallbackActive, fallbackReason,
                   tripUpdatesResult, vehiclePositionsResult, response>>
    /\ UNCHANGED <<sourceVars, hookVars, mapVars, pollVars>>

\* step 6
MarkCompletedStep ==
    /\ pc = "mark-completed"
    /\ movements' = markCompletedMovements(movements, now)
    /\ pc' = "filter"
    /\ UNCHANGED <<filters, now, cachedSchedule, scheduledMovements, feeds, allAlerts,
                   corridorAlerts, fallbackActive, fallbackReason,
                   tripUpdatesResult, vehiclePositionsResult, response>>
    /\ UNCHANGED <<sourceVars, hookVars, mapVars, pollVars>>

\* step 7
FilterStep ==
    /\ pc = "filter"
    /\ movements' = applyFilters(movements, filters)
    /\ pc' = "sort"
    /\ UNCHANGED <<filters, now, cachedSchedule, scheduledMovements, feeds, allAlerts,
                   corridorAlerts, fallbackActive, fallbackReason,
                   tripUpdatesResult, vehiclePositionsResult, response>>
    /\ UNCHANGED <<sourceVars, hookVars, mapVars, pollVars>>

\* step 8 and the return statement; GET (src/app/api/movements/route.ts)
\* hands the resolved value to the client as JSON
SortAndReturn ==
    /\ pc = "sort"
    /\ movements' = sortMovements(movements)
    /\ response' = [kind |-> "ok",
                    movements |-> sortMovements(movements),
                    feeds |-> feeds,
                    alerts |-> corridorAlerts,
                    filters |-> filters,
                    fallbackActive |-> fallbackActive,
                    fallbackReason |-> fallbackReason]
    /\ pc' = "done"
    /\ UNCHANGED <<filters, now, cachedSchedule, scheduledMovements, feeds, allAlerts,
                   corridorAlerts, fallbackActive, fallbackReason,
                   tripUpdatesResult, vehiclePositionsResult>>
    /\ UNCHANGED <<sourceVars, hookVars, mapVars, pollVars>>

\* GET's catch block: getCorridorMovements rejected, the client gets
\* status 500 and no movements
RespondError ==
    /\ pc = "threw"
    /\ response' = [kind |-> "error"]
    /\ pc' = "done"
    /\ UNCHANGED <<filters, now, cachedSchedule, scheduledMovements, movements, feeds,
                   allAlerts, corridorAlerts, fallbackActive, fallbackReason,
                   tripUpdatesResult, vehiclePositionsResult>>
    /\ UNCHANGED <<sourceVars, hookVars, mapVars, pollVars>>

Next ==
    \/ Start
    \/ FetchSchedule
    \/ FetchAlerts
    \/ TripUpdatesSettle
    \/ VehiclePositionsSettle
    \/ MergeRealtime
    \/ RealtimeFailed
    \/ SkipFreight
    \/ FetchFreight
    \/ FreightFailed
    \/ CorrelateAlerts
    \/ MarkCompletedStep
    \/ FilterStep
    \/ SortAndReturn
    \/ RespondError

Spec == Init /\ [][Next]_vars

\* getScheduledMovementsAsync called NumCalls times, the calls overlapping at
\* their awaits
ScheduleSpec == Init /\ [][ScheduleNext]_vars

\* the hook's fetches, responses and aborts in every order
HookSpec == Init /\ [][HookNext]_vars

\* the map under changing props and a running timer
MapSpec == Init /\ [][MapNext]_vars

\* one cycle in which mergeRealtimeData, whose source is not part of the
\* tree, may also throw inside the try block of step 3
MergeFailureNext ==
    \/ Next
    \/ MergeThrows

MergeFailureSpec == Init /\ [][MergeFailureNext]_vars

\* the steps of a cycle that wait for nothing outside the process: the
\* continuations the event loop runs once their promise has settled
RuntimeSteps ==
    \/ Start
    \/ MergeRealtime
    \/ RealtimeFailed
    \/ SkipFreight
    \/ CorrelateAlerts
    \/ MarkCompletedStep
    \/ FilterStep
    \/ SortAndReturn
    \/ RespondError

\* one cycle under the scheduling the runtime guarantees: a continuation
\* that is ready is run.  The awaits on fetch() (FetchSchedule, FetchAlerts,
\* TripUpdatesSettle, VehiclePositionsSettle, FetchFreight) are taken when
\* the upstream answers; no fetch is given a signal, a timeout or a race
\* against a timer, so nothing forces them
FairSpec == Init /\ [][Next]_vars /\ WF_vars(RuntimeSteps)

----------------------------------------------------------------------------
\* Properties of the aggregation cycle

\* C1: in every response, a movement whose confidence level is
\* confirmed-live carries a vehiclePosition, whatever the trip-update and
\* vehicle-position inputs were and after the whole pipeline has run.
C1_ConfirmedLiveHasPosition ==
    response.kind = "ok" =>
        \A i \in 1..Len(response.movements) :
            response.movements[i].confidence.level = "confirmed-live"
                => IsSome(response.movements[i].vehiclePosition)

\* a response that holds a confirmed-live movement next to a freight movement
C1_Witness ==
    /\ response.kind = "ok"
    /\ \E i \in 1..Len(response.movements) :
          /\ response.movements[i].confidence.level = "confirmed-live"
          /\ IsSome(response.movements[i].vehiclePosition)
    /\ \E j \in 1..Len(response.movements) :
          response.movements[j].serviceType = "freight"

\* C2: no failure of an individual source aborts the cycle: whatever the
\* schedule source, the alert feed, the two realtime feeds and the freight
\* source do, the caller gets a movement list and a feed list, never an
\* exception.
C2_CycleAlwaysReturns ==
    /\ pc # "threw"
    /\ pc = "done" => response.kind = "ok"

\* C3: the two realtime feeds are joined without short-circuit: when exactly
\* one of them fails, also by throwing, the other one's result is still
\* awaited and merged, and its own feed status is the one reported.
C3_RealtimeFeedsIsolated ==
    pc = "fetch-freight" =>
        /\ (tripUpdatesResult.kind = "rejected" /\ vehiclePositionsResult.kind # "rejected")
              => /\ vehiclePositionsResult.kind = "fulfilled"
                 /\ movements = mergeRealtimeData(scheduledMovements, << >>,
                                                  vehiclePositionsResult.positions)
                 /\ SeqHas(feeds, Val(vehiclePositionsResult.feedStatus))
        /\ (vehiclePositionsResult.kind = "rejected" /\ tripUpdatesResult.kind # "rejected")
              => /\ tripUpdatesResult.kind = "fulfilled"
                 /\ movements = mergeRealtimeData(scheduledMovements,
                                                  tripUpdatesResult.updates, << >>)
                 /\ SeqHas(feeds, Val(tripUpdatesResult.feedStatus))

\* C4 as stated: when both realtime feeds report offline, the response has
\* fallbackActive set and every movement in it has confidence scheduled.
C4_AllMovementsScheduled ==
    ( /\ response.kind = "ok"
      /\ tripUpdatesResult.kind = "fulfilled"
      /\ vehiclePositionsResult.kind = "fulfilled"
      /\ Val(tripUpdatesResult.feedStatus).status = "offline"
      /\ Val(vehiclePositionsResult.feedStatus).status = "offline" )
    => /\ response.fallbackActive
       /\ \A i \in 1..Len(response.movements) :
             response.movements[i].confidence.level = "scheduled"

\* C4 amended: when both realtime feeds report offline, the response has
\* fallbackActive set, every passenger movement in it has confidence
\* scheduled and every freight movement has confidence estimated-freight.
C4_PassengerMovementsScheduled ==
    ( /\ response.kind = "ok"
      /\ tripUpdatesResult.kind = "fulfilled"
      /\ vehiclePositionsResult.kind = "fulfilled"
      /\ Val(tripUpdatesResult.feedStatus).status = "offline"
      /\ Val(vehiclePositionsResult.feedStatus).status = "offline" )
    => /\ response.fallbackActive
       /\ \A i \in 1..Len(response.movements) :
             response.movements[i].confidence.level =
                IF response.movements[i].serviceType = "passenger"
                THEN "scheduled" ELSE "estimated-freight"

\* both feeds offline, and the response holds passenger and freight movements
C4_Witness ==
    /\ response.kind = "ok"
    /\ tripUpdatesResult.kind = "fulfilled"
    /\ vehiclePositionsResult.kind = "fulfilled"
    /\ Val(tripUpdatesResult.feedStatus).status = "offline"
    /\ Val(vehiclePositionsResult.feedStatus).status = "offline"
    /\ \E i \in 1..Len(response.movements) :
          response.movements[i].serviceType = "passenger"
    /\ \E j \in 1..Len(response.movements) :
          response.movements[j].serviceType = "freight"

\* C5: fallbackActive is set exactly when both realtime feeds report offline
\* or the realtime fetch throws, and it is set exactly when a reason string
\* is given; with at most one feed offline and nothing thrown it is false
\* and the reason is absent.
C5_FallbackFlag ==
    response.kind = "ok" =>
        LET threw == \/ tripUpdatesResult.kind = "rejected"
                     \/ vehiclePositionsResult.kind = "rejected"
            bothOffline ==
                /\ tripUpdatesResult.kind = "fulfilled"
                /\ vehiclePositionsResult.kind = "fulfilled"
                /\ Val(tripUpdatesResult.feedStatus).status = "offline"
                /\ Val(vehiclePositionsResult.feedStatus).status = "offline"
        IN  /\ response.fallbackActive = (threw \/ bothOffline)
            /\ response.fallbackActive = IsSome(response.fallbackReason)

\* exactly one feed is offline, nothing threw, and the flag is down
C5_Witness ==
    /\ response.kind = "ok"
    /\ tripUpdatesResult.kind = "fulfilled"
    /\ vehiclePositionsResult.kind = "fulfilled"
    /\ Val(tripUpdatesResult.feedStatus).status = "offline"
    /\ Val(vehiclePositionsResult.feedStatus).status = "online"
    /\ ~response.fallbackActive
    /\ ~IsSome(response.fallbackReason)

\* C6: a movement whose trip is in both maps ends the merge with confidence
\* confirmed-live and a position, while its delay, its estimated time and
\* the estimated departures of its calls are those the trip update gives: a
\* departure delay of d seconds at both stations gives d / 60 minutes and an
\* estimate d seconds behind the schedule.
C6_PositionAfterDelay ==
    ( /\ pc = "fetch-freight"
      /\ tripUpdatesResult.kind = "fulfilled"
      /\ vehiclePositionsResult.kind = "fulfilled" )
    => \A i \in 1..Len(scheduledMovements) :
          LET base == scheduledMovements[i]
              m == movements[i]
              t == Val(base.tripId)
          IN  (t \in DOMAIN tripUpdatesResult.updates
               /\ t \in DOMAIN vehiclePositionsResult.positions)
              => LET u == tripUpdatesResult.updates[t]
                     updated == ApplyTripUpdate(base, u)
                 IN  /\ m.confidence.level = "confirmed-live"
                     /\ IsSome(m.vehiclePosition)
                     /\ m.delayMinutes = updated.delayMinutes
                     /\ m.estimatedTime = updated.estimatedTime
                     /\ m.cardiffCall = updated.cardiffCall
                     /\ m.kotaraCall = updated.kotaraCall
                     /\ \A d \in Delays :
                           u.stopTimeUpdates = << StopUpdate(CARDIFF, Some(d), None),
                                                  StopUpdate(KOTARA, Some(d), None) >>
                           => /\ m.delayMinutes = Some(d \div 60)
                              /\ m.estimatedTime = Some(base.scheduledTime + d)

\* a merged movement with a three-minute delay and a live position
C6_Witness ==
    /\ pc = "fetch-freight"
    /\ tripUpdatesResult.kind = "fulfilled"
    /\ vehiclePositionsResult.kind = "fulfilled"
    /\ \E i \in 1..Len(scheduledMovements) :
          /\ Val(scheduledMovements[i].tripId) \in DOMAIN tripUpdatesResult.updates
          /\ Val(scheduledMovements[i].tripId) \in DOMAIN vehiclePositionsResult.positions
          /\ movements[i].delayMinutes = Some(3)
          /\ movements[i].confidence.level = "confirmed-live"

\* C7: a baseline movement whose trip is in neither map leaves the merge
\* unchanged: status scheduled, confidence scheduled, no delay, no estimate.
C7_UntouchedMovementUnchanged ==
    ( /\ pc = "fetch-freight"
      /\ tripUpdatesResult.kind = "fulfilled"
      /\ vehiclePositionsResult.kind = "fulfilled" )
    => \A i \in 1..Len(scheduledMovements) :
          LET base == scheduledMovements[i]
              m == movements[i]
              t == Val(base.tripId)
          IN  (t \notin DOMAIN tripUpdatesResult.updates
               /\ t \notin DOMAIN vehiclePositionsResult.positions)
              => /\ m = base
                 /\ m.status = "scheduled"
                 /\ m.confidence.level = "scheduled"
                 /\ m.delayMinutes = None
                 /\ m.estimatedTime = None
                 /\ m.vehiclePosition = None

\* the merge changed one movement and left another one alone
C7_Witness ==
    /\ pc = "fetch-freight"
    /\ tripUpdatesResult.kind = "fulfilled"
    /\ vehiclePositionsResult.kind = "fulfilled"
    /\ \E i \in 1..Len(scheduledMovements) :
          /\ Val(scheduledMovements[i].tripId) \notin DOMAIN tripUpdatesResult.updates
          /\ Val(scheduledMovements[i].tripId) \notin DOMAIN vehiclePositionsResult.positions
          /\ movements[i].status = "scheduled"
    /\ \E j \in 1..Len(scheduledMovements) :
          movements[j] # scheduledMovements[j]

\* C8: a movement with a trip update that does not cancel it (and with no
\* position) ends the merge with confidence confirmed-updated, with
\* delayMinutes the rounded difference of the primary call's estimated and
\* scheduled departure, and with status delayed if that delay exceeds two
\* minutes and live otherwise; a 180 second delay gives 3 and delayed.
C8_DelayFromPrimaryCall ==
    ( /\ pc = "fetch-freight"
      /\ tripUpdatesResult.kind = "fulfilled"
      /\ vehiclePositionsResult.kind = "fulfilled" )
    => \A i \in 1..Len(scheduledMovements) :
          LET base == scheduledMovements[i]
              m == movements[i]
              t == Val(base.tripId)
              primary == IF m.direction = "towards-newcastle"
                         THEN Val(m.cardiffCall) ELSE Val(m.kotaraCall)
          IN  ( /\ t \in DOMAIN tripUpdatesResult.updates
                /\ ~tripUpdatesResult.updates[t].cancelled
                /\ t \notin DOMAIN vehiclePositionsResult.positions )
              => /\ m.confidence.level = "confirmed-updated"
                 /\ m.status = IF IsSome(m.delayMinutes) /\ Val(m.delayMinutes) > 2
                               THEN "delayed" ELSE "live"
                 /\ IsSome(primary.estimatedDeparture)
                       => /\ IsSome(m.delayMinutes)
                          /\ 60 * Val(m.delayMinutes) - 30 <=
                                Val(primary.estimatedDeparture)
                                - Val(primary.scheduledDeparture)
                          /\ Val(primary.estimatedDeparture)
                             - Val(primary.scheduledDeparture) <
                                60 * Val(m.delayMinutes) + 30
                 /\ tripUpdatesResult.updates[t].stopTimeUpdates =
                        << StopUpdate(CARDIFF, Some(180), None),
                           StopUpdate(KOTARA, Some(180), None) >>
                       => m.delayMinutes = Some(3) /\ m.status = "delayed"

\* one movement delayed by 180 seconds, another update of two minutes left live
C8_Witness ==
    /\ pc = "fetch-freight"
    /\ tripUpdatesResult.kind = "fulfilled"
    /\ vehiclePositionsResult.kind = "fulfilled"
    /\ \E i \in 1..Len(scheduledMovements) :
          /\ Val(scheduledMovements[i].tripId) \in DOMAIN tripUpdatesResult.updates
          /\ movements[i].delayMinutes = Some(3)
          /\ movements[i].status = "delayed"
          /\ movements[i].confidence.level = "confirmed-updated"

\* C9: the position upgrade never lowers a status: a movement with a live
\* position is never scheduled; it is live when it had no trip update and
\* keeps the status of its trip update (live, delayed, cancelled) otherwise.
C9_PositionKeepsStatus ==
    ( /\ pc = "fetch-freight"
      /\ tripUpdatesResult.kind = "fulfilled"
      /\ vehiclePositionsResult.kind = "fulfilled" )
    => \A i \in 1..Len(scheduledMovements) :
          LET base == scheduledMovements[i]
              m == movements[i]
              t == Val(base.tripId)
              updates == tripUpdatesResult.updates
          IN  t \in DOMAIN vehiclePositionsResult.positions
              => /\ m.status # "scheduled"
                 /\ IsSome(m.vehiclePosition)
                 /\ t \notin DOMAIN updates => m.status = "live"
                 /\ t \in DOMAIN updates =>
                       /\ m.status = ApplyTripUpdate(base, updates[t]).status
                       /\ updates[t].cancelled => m.status = "cancelled"
                       /\ updates[t].stopTimeUpdates =
                            << StopUpdate(CARDIFF, Some(180), None),
                               StopUpdate(KOTARA, Some(180), None) >>
                          => m.status = "delayed"

\* a delayed movement that got a live position and is still delayed
C9_Witness ==
    /\ pc = "fetch-freight"
    /\ tripUpdatesResult.kind = "fulfilled"
    /\ vehiclePositionsResult.kind = "fulfilled"
    /\ \E i \in 1..Len(scheduledMovements) :
          /\ Val(scheduledMovements[i].tripId) \in DOMAIN vehiclePositionsResult.positions
          /\ Val(scheduledMovements[i].tripId) \in DOMAIN tripUpdatesResult.updates
          /\ movements[i].status = "delayed"
          /\ IsSome(movements[i].vehiclePosition)

\* C10: a movement the trip update flags cancelled gets status cancelled,
\* confidence confirmed-updated and the disruption note from the update,
\* and from the merge to the response its status stays cancelled: neither
\* the position upgrade nor completion marking changes it.
C10_CancelledStaysCancelled ==
    ( /\ tripUpdatesResult.kind = "fulfilled"
      /\ vehiclePositionsResult.kind = "fulfilled"
      /\ pc \in {"fetch-freight", "correlate-alerts", "mark-completed",
                 "filter", "sort", "done"} )
    => LET updates == tripUpdatesResult.updates
           IsCancelled(m) == /\ IsSome(m.tripId)
                             /\ Val(m.tripId) \in DOMAIN updates
                             /\ updates[Val(m.tripId)].cancelled
       IN  /\ \A i \in 1..Len(scheduledMovements) :
                 IsCancelled(scheduledMovements[i]) =>
                    LET m == ApplyTripUpdate(scheduledMovements[i],
                                             updates[Val(scheduledMovements[i].tripId)])
                    IN  /\ m.status = "cancelled"
                        /\ m.confidence.level = "confirmed-updated"
                        /\ m.disruptions =
                              Append(scheduledMovements[i].disruptions, CancelledNote)
           /\ \A j \in 1..Len(movements) :
                 IsCancelled(movements[j]) =>
                    /\ movements[j].status = "cancelled"
                    /\ SeqHas(movements[j].disruptions, CancelledNote)
                    /\ movements[j].confidence.level =
                          IF IsSome(movements[j].vehiclePosition)
                          THEN "confirmed-live" ELSE "confirmed-updated"
           /\ pc = "fetch-freight" =>
                 \A i \in 1..Len(scheduledMovements) :
                     IsCancelled(scheduledMovements[i]) => IsCancelled(movements[i])
           /\ response.kind = "ok" =>
                 \A j \in 1..Len(response.movements) :
                     IsCancelled(response.movements[j]) =>
                        response.movements[j].status = "cancelled"

\* a response with a cancelled movement that has a live position and whose
\* last corridor departure is more than five minutes past
C10_Witness ==
    /\ response.kind = "ok"
    /\ \E j \in 1..Len(response.movements) :
          LET m == response.movements[j]
          IN  /\ m.status = "cancelled"
              /\ SeqHas(m.disruptions, CancelledNote)
              /\ IsSome(m.vehiclePosition)
              /\ IsSome(LastDeparture(m))
              /\ Val(LastDeparture(m)) < now - 5 * Minute
\* C11: realtime records for a trip the baseline does not hold are dropped:
\* the merge returns one movement per baseline movement, with the same ids
\* in the same order, whatever trip ids the two maps name, and the cycle
\* goes on to the freight step.
C11_UnknownTripsDropped ==
    ( /\ pc = "fetch-freight"
      /\ tripUpdatesResult.kind = "fulfilled"
      /\ vehiclePositionsResult.kind = "fulfilled" )
    => /\ Len(movements) = Len(scheduledMovements)
       /\ \A i \in 1..Len(scheduledMovements) :
             /\ movements[i].id = scheduledMovements[i].id
             /\ movements[i].tripId = scheduledMovements[i].tripId
       /\ \A j \in 1..Len(movements) :
             movements[j].tripId # Some(UnknownTrip)

\* a merge whose delay map names a trip that is not in the baseline
C11_Witness ==
    /\ pc = "fetch-freight"
    /\ tripUpdatesResult.kind = "fulfilled"
    /\ vehiclePositionsResult.kind = "fulfilled"
    /\ UnknownTrip \in DOMAIN tripUpdatesResult.updates
    /\ Len(scheduledMovements) = NumTrips
    /\ Len(movements) = NumTrips

\* the completion rule, written from the claim: the later of the two calls'
\* departures, each the estimated one when there is one
C12_LatestDeparture(m) ==
    LET Dep(call) == IF IsSome(Val(call).estimatedDeparture)
                     THEN Val(call).estimatedDeparture
                     ELSE Val(call).scheduledDeparture
        deps == (IF IsSome(m.cardiffCall) /\ IsSome(Dep(m.cardiffCall))
                 THEN {Val(Dep(m.cardiffCall))} ELSE {})
                \cup (IF IsSome(m.kotaraCall) /\ IsSome(Dep(m.kotaraCall))
                      THEN {Val(Dep(m.kotaraCall))} ELSE {})
    IN  IF deps = {} THEN None
        ELSE Some(CHOOSE d \in deps : \A e \in deps : e <= d)

\* C12: markCompletedMovements sets a movement's status to completed exactly
\* when its status is neither cancelled nor live and its latest corridor
\* departure (estimated before scheduled) is strictly more than five minutes
\* before now; it changes nothing else, and every other movement is returned
\* as it was.
C12_CompletionRule ==
    [][ MarkCompletedStep =>
          /\ Len(movements') = Len(movements)
          /\ \A i \in 1..Len(movements) :
                LET m == movements[i]
                    due == /\ m.status \notin {"cancelled", "live"}
                           /\ IsSome(C12_LatestDeparture(m))
                           /\ now - Val(C12_LatestDeparture(m)) > 5 * 60
                IN  movements'[i] =
                        IF due THEN [m EXCEPT !.status = "completed"] ELSE m ]_vars

\* after the step: a completed movement next to a delayed one whose last
\* departure is exactly five minutes past and which stays delayed
C12_Witness ==
    /\ pc = "filter"
    /\ \E i \in 1..Len(movements) : movements[i].status = "completed"
    /\ \E i \in 1..Len(movements) :
          /\ movements[i].status = "delayed"
          /\ Val(LastDeparture(movements[i])) = now - 5 * Minute

\* C13: completion marking is monotonic within a cycle: after the
\* mark-completed step, every movement the filter step and the sort step
\* hand on, and every movement of the response, is one of the movements they
\* were given, unchanged, so a completed movement is never scheduled or live
\* again.
C13_CompletedStaysCompleted ==
    [][ (pc \in {"filter", "sort"}) =>
          /\ \A j \in 1..Len(movements') :
                \E i \in 1..Len(movements) :
                    /\ movements'[j].id = movements[i].id
                    /\ movements'[j].status = movements[i].status
          /\ \A i \in 1..Len(movements) :
                movements[i].status = "completed" =>
                    \A j \in 1..Len(movements') :
                        movements'[j].id = movements[i].id
                            => movements'[j].status = "completed"
          /\ (pc' = "done" => response'.movements = (movements')) ]_vars

\* a response that holds a completed movement
C13_Witness ==
    /\ pc = "done"
    /\ response.kind = "ok"
    /\ \E j \in 1..Len(response.movements) :
          response.movements[j].status = "completed"
    /\ \E j \in 1..Len(response.movements) :
          response.movements[j].status = "live"

\* every filter set a request can carry (the time window does not reach
\* applyFilters)
C14_FilterSets ==
    [station : {"both", "cardiff", "kotara"},
     direction : {"both", "towards-newcastle", "towards-sydney"},
     type : {"all", "passenger", "freight"},
     status : {"all", "scheduled", "live", "delayed", "cancelled", "completed"}]

\* C14: filtering is idempotent: for the list the filter step is given and
\* every filter set F, filtering the filtered list again changes nothing, and
\* the filter set both/both/all/all returns the list unchanged.
C14_FilterIdempotent ==
    pc = "filter" =>
        /\ \A f \in C14_FilterSets :
              LET once == applyFilters(movements, f)
              IN  applyFilters(once, f) = once
        /\ applyFilters(movements, [station |-> "both", direction |-> "both",
                                    type |-> "all", status |-> "all"]) = movements

\* the filter step is given passenger and freight movements in both
\* directions, and a filter set that removes some of them and keeps others
C14_Witness ==
    /\ pc = "filter"
    /\ \E i \in 1..Len(movements) : movements[i].serviceType = "freight"
    /\ \E i \in 1..Len(movements) : movements[i].status = "completed"
    /\ \E f \in C14_FilterSets :
          /\ Len(applyFilters(movements, f)) > 0
          /\ Len(applyFilters(movements, f)) < Len(movements)

\* the number of elements of s equal to x
C15_Count(s, x) == Cardinality({i \in 1..Len(s) : s[i] = x})

\* C15: the movement list of every response is in ascending order of
\* estimatedTime, or scheduledTime where there is no estimate, and it is a
\* permutation of the filtered list.
C15_ResponseSorted ==
    [][ SortAndReturn =>
          LET Key(m) == IF IsSome(m.estimatedTime)
                        THEN Val(m.estimatedTime) ELSE m.scheduledTime
              out == response'.movements
          IN  /\ \A i \in 1..(Len(out) - 1) : Key(out[i]) <= Key(out[i + 1])
              /\ Len(out) = Len(movements)
              /\ \A i \in 1..Len(movements) :
                    C15_Count(out, movements[i]) = C15_Count(movements, movements[i])
      ]_vars

\* a response in which a movement with an estimate stands behind a movement
\* that the timetable puts after it
C15_Witness ==
    /\ response.kind = "ok"
    /\ \E i \in 1..(Len(response.movements) - 1) :
          LET a == response.movements[i]
              b == response.movements[i + 1]
          IN  /\ IsSome(b.estimatedTime)
              /\ b.scheduledTime < a.scheduledTime
              /\ Val(b.estimatedTime) > a.scheduledTime
----------------------------------------------------------------------------
\* Properties of the schedule source

\* the days a window touches: the day of `from` and, across midnight, the
\* day of `to`
C16_Days(from, to) ==
    {startOfDay(from)}
    \cup (IF getDate(to) # getDate(from) THEN {addDays(startOfDay(from), 1)} ELSE {})

\* the <<trip id, primary time>> pairs the timetable, or without a timetable
\* trip the built-in table, puts into the window on the days it touches
C16_Expected(cache, from, to) ==
    IF IsSome(cache) /\ Len(Val(cache).trips) > 0
    THEN UNION { { <<Val(BuildOne(Val(cache).trips[k], day).m).tripId,
                     Val(BuildOne(Val(cache).trips[k], day).m).scheduledTime>> :
                     k \in {j \in 1..Len(Val(cache).trips) :
                              BuildOne(Val(cache).trips[j], day).kind = "movement"} } :
                 day \in C16_Days(from, to) }
    ELSE { <<FallbackMovement(i, day).tripId, FallbackMovement(i, day).scheduledTime>> :
             i \in 1..Len(FallbackServices), day \in C16_Days(from, to) }

\* C16: getScheduledMovementsAsync(from, to) returns only movements whose
\* primary time t has from <= t <= to, and it returns every trip whose
\* projection onto the day of `from` or, when the window spans midnight, onto
\* the following day falls in the window, whether the movements come from
\* the cached timetable, from the timetable fetched again after an empty
\* result, or from the built-in table.
C16_WindowAcrossMidnight ==
    [][ \A c \in CallIds :
          (calls[c].pc # "returned" /\ calls'[c].pc = "returned") =>
             LET from == calls'[c].from
                 to == calls'[c].to
                 result == calls'[c].result
             IN  /\ \A i \in 1..Len(result) :
                       from <= result[i].scheduledTime /\ result[i].scheduledTime <= to
                 /\ \A e \in C16_Expected(cachedSchedule', from, to) :
                       (from <= e[2] /\ e[2] <= to) =>
                          \E i \in 1..Len(result) :
                             /\ result[i].tripId = e[1]
                             /\ result[i].scheduledTime = e[2]
      ]_vars

\* C17: when the parsed timetable yields no movement, the schedule source
\* fetches it again once; if that fetch fails or its timetable yields no
\* movement either, the call returns the built-in timetable cut to the
\* window; the call never waits for a third fetch, and it never ends in an
\* error.
C17_EmptyTimetableRetriedOnce ==
    [][ \A c \in CallIds :
          /\ (calls[c].pc # "await-refetch" /\ calls'[c].pc = "await-refetch") =>
                /\ calls'[c].reParsed = None
                /\ IsSome(cachedSchedule')
                /\ Len(Val(cachedSchedule').trips) = 0
          /\ calls[c].pc = "await-refetch" =>
                /\ calls'[c].pc \in {"await-refetch", "returned"}
                /\ calls'[c].pc = "returned" =>
                      LET reParsed == Val(calls'[c].reParsed)
                      IN  (~IsSome(reParsed) \/ Len(Val(reParsed).trips) = 0) =>
                             calls'[c].result =
                                FilterToWindow(
                                    generateFallbackSchedule(calls'[c].from, calls'[c].to),
                                    calls'[c].from, calls'[c].to)
      ]_vars

\* C18: a failed timetable fetch neither crashes nor touches the cache: the
\* cache, once set, stays set and holds the timetable parsed last, and a call
\* that finds the cache expired and whose fetch fails builds its answer from
\* the stale timetable (going on to the retry of C17 if that one yields no
\* movement), while a call that finds no cache at all answers with the
\* built-in timetable.
C18_FailedRefetchKeepsCache ==
    [][ /\ IsSome(cachedSchedule) => IsSome(cachedSchedule')
        /\ cachedSchedule' = lastParsed'
        /\ \A c \in CallIds :
              (calls[c].pc = "await-fetch" /\ calls'[c].parsed = Some(None)) =>
                 /\ cachedSchedule' = cachedSchedule
                 /\ ( /\ IsSome(cachedSchedule)
                      /\ wallClock - Val(cachedSchedule).fetchedAt >= 6 * 60 * 60 )
                    => /\ calls'[c].pc \in {"returned", "await-refetch"}
                       /\ calls'[c].pc = "await-refetch"
                             => Len(Val(cachedSchedule).trips) = 0
                       /\ calls'[c].pc = "returned" =>
                             { <<calls'[c].result[i].tripId,
                                 calls'[c].result[i].scheduledTime>> :
                                 i \in 1..Len(calls'[c].result) }
                             = { e \in C16_Expected(cachedSchedule, calls'[c].from,
                                                    calls'[c].to) :
                                   calls'[c].from <= e[2] /\ e[2] <= calls'[c].to }
                 /\ ~IsSome(cachedSchedule) =>
                       /\ calls'[c].pc = "returned"
                       /\ calls'[c].result =
                             FilterToWindow(
                                 generateFallbackSchedule(calls'[c].from, calls'[c].to),
                                 calls'[c].from, calls'[c].to)
      ]_vars

\* the timetables a fetch can have produced, each a whole ParsedSchedule
C19_WholeTimetables ==
    {ParsedSchedule(kind, t) : kind \in {"night", "gap", "blank-time"},
                               t \in {FirstClock, LaterClock}}

\* C19: when all callers find the cache expired and fetch the timetable
\* without a lock, under every interleaving each call completes with a
\* movement list, and the cache holds the whole timetable of the last fetch
\* that succeeded: never a partial value, and never null once a fetch has
\* succeeded.
C19_ConcurrentRefetch ==
    /\ IsSome(cachedSchedule) => Val(cachedSchedule) \in C19_WholeTimetables
    /\ cachedSchedule = lastParsed
    /\ (\E c \in CallIds :
           \/ (IsSome(calls[c].parsed) /\ IsSome(Val(calls[c].parsed)))
           \/ (IsSome(calls[c].reParsed) /\ IsSome(Val(calls[c].reParsed))))
       => IsSome(cachedSchedule)
    /\ (\A c \in CallIds : IsSome(calls[c].parsed)) =>
          \A c \in CallIds : calls[c].pc # "threw"

----------------------------------------------------------------------------
\* Properties of the client poll

\* C20: issuing a new fetch cancels the one in flight, and under every
\* interleaving of calls of fetchMovements and arrivals of responses, the
\* response of an older request is never put into the displayed data once a
\* newer request has been issued: whenever data changes, it becomes the
\* response of the request issued last.
C20_NoStaleResponseApplied ==
    [][ /\ \A r \in 1..Len(requests') :
              (r < Len(requests') /\ Unsettled(requests'[r])) => requests'[r].aborted
        /\ data' # data => data' = Some(Len(requests))
      ]_vars

\* the response of the latest request is displayed while an earlier request,
\* aborted in flight, has not yet noticed
C20_Witness ==
    /\ Len(requests) >= 2
    /\ data = Some(Len(requests))
    /\ \E r \in 1..(Len(requests) - 1) :
          /\ requests[r].state = "reading"
          /\ requests[r].aborted
----------------------------------------------------------------------------
\* Termination

\* C21: no operation blocks indefinitely: whichever upstream source stays
\* silent, the cycle that was started eventually reaches done.
C21_CycleEventuallyDone ==
    <>(pc = "done")
----------------------------------------------------------------------------
\* Feed statuses

\* the FeedStatus of that name in a feed list
C22_FeedsNamed(fs, name) == SelectSeq(fs, LAMBDA f : f.name = name)

C22_Offline(f) == f.status = "offline" /\ IsSome(f.error)

C22_AllOffline(fs) == \A i \in 1..Len(fs) : C22_Offline(fs[i])

\* the timetable fetch failed: the cache, empty at the start of the cycle,
\* is still empty after getScheduledMovementsAsync has returned
C22_StaticFailed ==
    /\ pc = "fetch-schedule" /\ pc' = "fetch-alerts"
    /\ cachedSchedule' = None

\* processServiceAlerts rejected or reported a failed fetch
C22_AlertsFailed ==
    /\ pc = "fetch-alerts" /\ pc' = "fetch-realtime"
    /\ \E o \in ServiceAlertOutcomes(now) :
          /\ o.kind = "rejected" \/ Val(o.feedStatus).status = "offline"
          /\ allAlerts' = o.alerts
          /\ o.kind = "fulfilled" => feeds' = Append(feeds, Val(o.feedStatus))

C22_ResultFailed(result) ==
    \/ result.kind = "rejected"
    \/ result.kind = "fulfilled" /\ Val(result.feedStatus).status = "offline"

\* the freight API is configured and its request failed
C22_FreightFailed ==
    /\ pc = "fetch-freight" /\ pc' = "correlate-alerts"
    /\ filters.type # "passenger"
    /\ feeds' = Append(feeds, getFreightMovements(now, TRUE, FALSE).feedStatus)

\* C22: whenever a source's fetch fails in a cycle, the FeedStatus of that
\* source in the cycle's feed list (which the response carries unchanged)
\* has status offline and an error text: the static schedule, the service
\* alerts, the trip updates, the vehicle positions and freight alike.
C22_FailedSourceOffline ==
    [][ /\ C22_StaticFailed
           => C22_AllOffline(C22_FeedsNamed(feeds', "GTFS Static Schedule"))
        /\ C22_AlertsFailed
           => C22_AllOffline(C22_FeedsNamed(feeds', "GTFS-RT Service Alerts"))
        /\ (pc = "fetch-realtime" /\ pc' = "fetch-freight"
               /\ C22_ResultFailed(tripUpdatesResult))
           => C22_AllOffline(C22_FeedsNamed(feeds', "GTFS-RT Trip Updates"))
        /\ (pc = "fetch-realtime" /\ pc' = "fetch-freight"
               /\ C22_ResultFailed(vehiclePositionsResult))
           => C22_AllOffline(C22_FeedsNamed(feeds', "GTFS-RT Vehicle Positions"))
        /\ C22_FreightFailed
           => C22_Offline(feeds'[Len(feeds')]) ]_vars

\* the names the FeedStatus of each source is pushed under
C23_SourceNames ==
    [static |-> {"GTFS Static Schedule"},
     alerts |-> {"GTFS-RT Service Alerts"},
     tripUpdates |-> {"GTFS-RT Trip Updates"},
     vehiclePositions |-> {"GTFS-RT Vehicle Positions"},
     freight |-> {"ARTC Freight Data", "Freight Data (Modelled)", "Freight Data"}]

C23_Consulted(f) ==
    IF f.type = "passenger"
    THEN {"static", "alerts", "tripUpdates", "vehiclePositions"}
    ELSE {"static", "alerts", "tripUpdates", "vehiclePositions", "freight"}

C23_CountOf(fs, names) ==
    Cardinality({i \in 1..Len(fs) : fs[i].name \in names})

\* C23: the feed list of a response holds exactly one FeedStatus for each
\* source the cycle consulted and nothing else, on every path through the
\* cycle, the paths through the catch blocks included.
C23_OneFeedPerSource ==
    response.kind = "ok" =>
        /\ \A s \in C23_Consulted(response.filters) :
              C23_CountOf(response.feeds, C23_SourceNames[s]) = 1
        /\ Len(response.feeds) = Cardinality(C23_Consulted(response.filters))

----------------------------------------------------------------------------
\* Freight without a credential

C24_NoKeyText == Some("No ARTC API key configured. Using modelled freight patterns.")

\* what the claim asks of one freight movement
C24_Estimated(m) ==
    /\ m.serviceType = "freight"
    /\ m.confidence.level = "estimated-freight"
    /\ Len(m.confidence.sources) > 0
    /\ IsSome(m.cardiffCall) => ~Val(m.cardiffCall).stopsHere
    /\ IsSome(m.kotaraCall) => ~Val(m.kotaraCall).stopsHere

\* the step of getCorridorMovements that took freightResult from
\* getFreightMovements
C24_TookFreight(freightResult) ==
    /\ pc = "fetch-freight" /\ pc' = "correlate-alerts"
    /\ filters.type # "passenger"
    /\ feeds' = Append(feeds, freightResult.feedStatus)
    /\ movements' = movements \o
          FilterToWindow(freightResult.movements,
                         getTimeWindow(filters.timeWindow, now).from,
                         getTimeWindow(filters.timeWindow, now).to)

\* C24: with no freight credential configured, every movement
\* getFreightMovements returns is of confidence estimated-freight with a
\* non-empty source list and stopsHere false on each of its corridor calls,
\* so is every freight movement the cycle takes over from it, and the
\* freight FeedStatus carries the error text about the missing key.
C24_NoCredentialFreight ==
    [][ \A apiOk \in BOOLEAN :
          LET freightResult == getFreightMovements(now, FALSE, apiOk)
          IN  C24_TookFreight(freightResult) =>
                /\ Len(freightResult.movements) > 0
                /\ \A i \in 1..Len(freightResult.movements) :
                      C24_Estimated(freightResult.movements[i])
                /\ \A i \in (Len(movements) + 1)..Len(movements') :
                      C24_Estimated(movements'[i])
                /\ feeds'[Len(feeds')].error = C24_NoKeyText ]_vars

\* a cycle has taken modelled freight over under the missing-key status
C24_Witness ==
    /\ pc = "correlate-alerts"
    /\ Len(feeds) > 0
    /\ feeds[Len(feeds)].error = C24_NoKeyText
    /\ feeds[Len(feeds)].status = "degraded"
    /\ \E i \in 1..Len(movements) :
          /\ movements[i].serviceType = "freight"
          /\ IsSome(movements[i].cardiffCall)
          /\ IsSome(movements[i].kotaraCall)

----------------------------------------------------------------------------
\* Alerts of one movement

\* the part of rid before its first underscore (all of it if it has none)
\* is an initial part of routeId
C25_RoutePrefixOf(rid, routeId) ==
    \E k \in 0..Len(rid) :
        /\ k = Len(rid) \/ rid[k + 1] = "_"
        /\ \A j \in 1..k : rid[j] # "_"
        /\ k <= Len(routeId)
        /\ \A j \in 1..k : routeId[j] = rid[j]

\* the alert is active and names the trip or a route of that prefix
C25_Matches(a, tripId, routeId) ==
    /\ a.isActive
    /\ \/ /\ IsSome(tripId)
          /\ \E j \in 1..Len(a.tripIds) : a.tripIds[j] = Val(tripId)
       \/ /\ IsSome(routeId)
          /\ \E j \in 1..Len(a.routeIds) : C25_RoutePrefixOf(a.routeIds[j], Val(routeId))

C25_Expected(alerts, m) ==
    SelectSeq(alerts, LAMBDA a : C25_Matches(a, m.tripId, m.routeId))

\* C25: for every movement of a cycle, getAlertsForMovement returns exactly
\* the alerts that are active and name the movement's trip id or a route id
\* whose part before the underscore starts the movement's route id, in the
\* order of the feed; the alert step appends the disruption texts of
\* exactly these alerts, so an inactive alert adds nothing and a movement
\* with neither trip id nor route id (each freight movement) gains no
\* disruption.
C25_AlertsOfMovement ==
    [][ (pc = "correlate-alerts" /\ pc' = "mark-completed") =>
          /\ Len(movements') = Len(movements)
          /\ \A i \in 1..Len(movements) :
                LET m == movements[i]
                IN  /\ getAlertsForMovement(allAlerts, m.tripId, m.routeId)
                         = C25_Expected(allAlerts, m)
                    /\ movements'[i].disruptions
                         = m.disruptions \o
                           MapSeq(C25_Expected(allAlerts, m), AlertDisruption)
                    /\ (~IsSome(m.tripId) /\ ~IsSome(m.routeId))
                         => movements'[i].disruptions = m.disruptions ]_vars

\* the alert step has run over an inactive alert that names the trip of a
\* movement, a movement that took the route alert's text by its prefix,
\* and a freight movement
C25_Witness ==
    /\ pc = "mark-completed"
    /\ \E i \in 1..Len(movements), k \in 1..Len(allAlerts) :
          /\ ~allAlerts[k].isActive
          /\ IsSome(movements[i].tripId)
          /\ SeqHas(allAlerts[k].tripIds, Val(movements[i].tripId))
    /\ \E i \in 1..Len(movements), k \in 1..Len(allAlerts) :
          /\ IsSome(movements[i].routeId)
          /\ allAlerts[k].isActive
          /\ ~SeqHas(allAlerts[k].routeIds, Val(movements[i].routeId))
          /\ SeqHas(movements[i].disruptions, AlertDisruption(allAlerts[k]))
    /\ \E i \in 1..Len(movements) :
          /\ movements[i].serviceType = "freight"
          /\ movements[i].disruptions = << >>

----------------------------------------------------------------------------
\* Position estimator

\* the best time of a corridor call, absent if the call has none
C26_TimeOf(call) ==
    IF ~IsSome(call) THEN None
    ELSE OrElse(Val(call).estimatedDeparture,
                OrElse(Val(call).scheduledDeparture,
                       OrElse(Val(call).estimatedArrival, Val(call).scheduledArrival)))

C26_Timed(m) ==
    /\ ~IsSome(m.vehiclePosition)
    /\ IsSome(C26_TimeOf(m.cardiffCall))
    /\ IsSome(C26_TimeOf(m.kotaraCall))

\* entry and exit by direction: towards Newcastle the corridor is entered
\* at Cardiff and left at Kotara
C26_EntryTime(m) ==
    Val(C26_TimeOf(IF m.direction = "towards-newcastle" THEN m.cardiffCall
                   ELSE m.kotaraCall))

C26_ExitTime(m) ==
    Val(C26_TimeOf(IF m.direction = "towards-newcastle" THEN m.kotaraCall
                   ELSE m.cardiffCall))

\* the normalised position of a station: its cumulative distance over the
\* length of the path
C26_EntryStation(m) ==
    Normalised(IF m.direction = "towards-newcastle" THEN CARDIFF_DISTANCE
               ELSE KOTARA_DISTANCE, 1)

C26_ExitStation(m) ==
    Normalised(IF m.direction = "towards-newcastle" THEN KOTARA_DISTANCE
               ELSE CARDIFF_DISTANCE, 1)

C26_Same(a, b) == a.num * b.den = b.num * a.den

C26_InUnitInterval(t) == 0 <= t.num /\ t.num <= t.den * TOTAL_PATH_LENGTH

C26_Outside(m, clock) ==
    \/ clock < C26_EntryTime(m) - 3 * Minute
    \/ clock > C26_ExitTime(m) + 3 * Minute

\* what the claim says of movement m at the instant of the last update,
\* for the estimator and for the position the map then holds for m
C26_Contract(m) ==
    LET t == estimatePositionT(m, mapClock)
    IN  /\ IsSome(t) = ~C26_Outside(m, mapClock)
        /\ IsSome(t) =>
              /\ C26_InUnitInterval(Val(t))
              /\ mapClock = C26_EntryTime(m) => C26_Same(Val(t), C26_EntryStation(m))
              /\ mapClock = C26_ExitTime(m) => C26_Same(Val(t), C26_ExitStation(m))
        /\ m.status \notin {"cancelled", "completed"} =>
              IF IsSome(t)
              THEN \E k \in 1..Len(mapPositions) :
                      /\ mapPositions[k].id = m.id
                      /\ ~mapPositions[k].isLive
                      /\ mapPositions[k].tValue = t
              ELSE \A k \in 1..Len(mapPositions) : mapPositions[k].id # m.id

----------------------------------------------------------------------------
\* Round trip of the corridor geometry

\* equal within 1e-6 degree
C27_Near(p, q) == Abs(p[1] - q[1]) <= 10 /\ Abs(p[2] - q[2]) <= 10

C27_AllNear(p, anchors) == \A a \in anchors : C27_Near(p, a)

----------------------------------------------------------------------------
\* Consecutive cycles (src/lib/corridor.ts, src/lib/tfnsw/gtfs-static.ts)

\* the trips a response shows as confirmed-live
LiveTrips(r) ==
    IF r.kind = "ok"
    THEN {Val(r.movements[i].tripId) :
            i \in {j \in 1..Len(r.movements) :
                     /\ IsSome(r.movements[j].tripId)
                     /\ r.movements[j].confidence.level = "confirmed-live"}}
    ELSE {}

\* the next poll: a later GET /api/movements calls getCorridorMovements anew;
\* every local of the earlier call is gone and only the module-level
\* cachedSchedule outlives it
NextRequest ==
    /\ pc = "done"
    /\ liveBefore' = LiveTrips(response)
    /\ \E f \in FilterChoices : filters' = f
    /\ \E n \in {m \in Nows : m > now} : now' = n
    /\ pc' = "fetch-schedule"
    /\ scheduledMovements' = << >>
    /\ movements' = << >>
    /\ feeds' = << >>
    /\ allAlerts' = << >>
    /\ corridorAlerts' = << >>
    /\ fallbackActive' = FALSE
    /\ fallbackReason' = None
    /\ tripUpdatesResult' = Pending
    /\ vehiclePositionsResult' = Pending
    /\ response' = NoResponse
    /\ UNCHANGED <<cachedSchedule, sourceVars, hookVars, mapVars>>

PollNext ==
    \/ Next
    \/ NextRequest

\* one cycle after another, each at a later time than the one before
PollSpec == Init /\ [][PollNext]_vars

\* C28: in every response, of a first cycle or of a later one, a movement
\* whose trip has no entry in the trip-update map and none in the
\* vehicle-position map of that same cycle carries what the schedule alone
\* gives it: confidence scheduled, no delay, no vehicle position and a status
\* other than live, whether or not an earlier cycle showed the trip as
\* confirmed-live.
C28_UpdateTrips ==
    IF tripUpdatesResult.kind = "fulfilled"
    THEN DOMAIN tripUpdatesResult.updates ELSE {}

C28_PositionTrips ==
    IF vehiclePositionsResult.kind = "fulfilled"
    THEN DOMAIN vehiclePositionsResult.positions ELSE {}

C28_NoEntry(m) ==
    /\ IsSome(m.tripId)
    /\ Val(m.tripId) \notin C28_UpdateTrips
    /\ Val(m.tripId) \notin C28_PositionTrips

C28_FromScheduleOnly(m) ==
    /\ m.confidence.level = "scheduled"
    /\ m.vehiclePosition = None
    /\ m.delayMinutes = None
    /\ m.status \in {"scheduled", "completed"}

C28_NoCarryOver ==
    (pc = "done" /\ response.kind = "ok")
        => \A i \in 1..Len(response.movements) :
              C28_NoEntry(response.movements[i])
                  => C28_FromScheduleOnly(response.movements[i])

\* a trip that was confirmed-live in the cycle before is returned without any
\* realtime entry in this one
C28_Witness ==
    /\ pc = "done"
    /\ response.kind = "ok"
    /\ \E i \in 1..Len(response.movements) :
          /\ C28_NoEntry(response.movements[i])
          /\ Val(response.movements[i].tripId) \in liveBefore
          /\ C28_FromScheduleOnly(response.movements[i])

\* C29: the movements the schedule source returns for a window, joined with
\* the freight movements as step 4 of the cycle joins them, have pairwise
\* distinct ids; this holds for the windows that start before midnight and
\* end after it, for which the timetable is built for two days, and with the
\* freight credential set or not.
C29_Distinct(ms) ==
    \A i, j \in 1..Len(ms) : i # j => ms[i].id # ms[j].id

C29_Combined(call, clock, hasKey) ==
    call.result \o getFreightMovements(clock, hasKey, FALSE).movements

C29_DistinctIds ==
    \A c \in CallIds :
        calls[c].pc = "returned"
            => \A clock \in {FirstClock, LaterClock}, hasKey \in BOOLEAN :
                  C29_Distinct(C29_Combined(calls[c], clock, hasKey))

\* a call over midnight has returned trips of a timetable whose two-day
\* projection holds the same trip twice, and freight joins them
C29_Witness ==
    \E c \in CallIds :
        /\ calls[c].pc = "returned"
        /\ getDate(calls[c].to) # getDate(calls[c].from)
        /\ IsSome(cachedSchedule)
        /\ ~BuildForWindow(Val(cachedSchedule), calls[c].from, calls[c].to).threw
        /\ ~C29_Distinct(BuildForWindow(Val(cachedSchedule), calls[c].from,
                                        calls[c].to).movements)
        /\ \E i \in 1..Len(calls[c].result) : calls[c].result[i].id[1] = "sched"
        /\ Len(C29_Combined(calls[c], wallClock, FALSE)) > Len(calls[c].result)
        /\ C29_Distinct(C29_Combined(calls[c], wallClock, FALSE))

\* C30: while a request that was not started by the auto refresh is in
\* flight, that is, still at one of its awaits and not aborted, the loading
\* flag is true.
C30_UserRequestInFlight(r) ==
    /\ Unsettled(requests[r])
    /\ ~requests[r].auto
    /\ ~requests[r].aborted

C30_LoadingWhileInFlight ==
    \A r \in 1..Len(requests) : C30_UserRequestInFlight(r) => loading

====
